---- MODULE Spec2Model ----
(***************************************************************************)
(* Model of the OSDU schema visualiser's core: the graph extractor         *)
(* (src/src/utils/graphBuilder.ts, lines 1-587) and the layout engine      *)
(* (src/src/utils/layout.ts).                                              *)
(*                                                                         *)
(* JavaScript strings are sequences of one-character strings, so that      *)
(* normalizeId, toLowerCase, includes, endsWith, split and replace are     *)
(* computed character by character as the code computes them.  A JSON     *)
(* object is a record of fixed shape; an absent field is the empty         *)
(* sequence (for every field the code reads, the empty value and the       *)
(* absent value take the same branch).  An object's properties are a       *)
(* sequence of key/value pairs in insertion order (Object.entries).        *)
(***************************************************************************)
EXTENDS Integers, Sequences, FiniteSets, TLC

VARIABLES model, opts, pc, graph, laid, laidEdges, iter, moved, heap, stack,
          history, events

vars == <<model, opts, pc, graph, laid, laidEdges, iter, moved, heap, stack,
          history, events>>

(***************************************************************************)
(* Strings                                                                 *)
(***************************************************************************)
UpperChars == <<"A","B","C","D","E","F","G","H","I","J","K","L","M",
                "N","O","P","Q","R","S","T","U","V","W","X","Y","Z">>
LowerChars == <<"a","b","c","d","e","f","g","h","i","j","k","l","m",
                "n","o","p","q","r","s","t","u","v","w","x","y","z">>
DigitChars == <<"0","1","2","3","4","5","6","7","8","9">>

Range(s) == {s[i] : i \in DOMAIN s}

\* the character class [a-zA-Z0-9_\-:.] of normalizeId
IdChars == Range(UpperChars) \cup Range(LowerChars) \cup Range(DigitChars)
             \cup {"_", "-", ":", "."}

IsUpper(c) == c \in Range(UpperChars)

LowerChar(c) ==
  IF IsUpper(c)
  THEN LowerChars[CHOOSE i \in DOMAIN UpperChars : UpperChars[i] = c]
  ELSE c

toLowerCase(s) == [i \in 1..Len(s) |-> LowerChar(s[i])]

\* s.startsWith(p) and s.endsWith(p)
startsWith(s, p) == Len(p) <= Len(s) /\ SubSeq(s, 1, Len(p)) = p
endsWith(s, p) == Len(p) <= Len(s) /\ SubSeq(s, Len(s) - Len(p) + 1, Len(s)) = p

\* s.includes(p)
includes(s, p) ==
  \E i \in 1..(Len(s) - Len(p) + 1) : SubSeq(s, i, i + Len(p) - 1) = p

\* s.trim(), the only white space of the alphabet being the blank
RECURSIVE trimStart(_)
trimStart(s) == IF s # <<>> /\ Head(s) = " " THEN trimStart(Tail(s)) ELSE s
RECURSIVE trimEnd(_)
trimEnd(s) ==
  IF s # <<>> /\ s[Len(s)] = " " THEN trimEnd(SubSeq(s, 1, Len(s) - 1)) ELSE s
trim(s) == trimEnd(trimStart(s))

\* parts.join(sep)
RECURSIVE join(_, _)
join(parts, sep) ==
  IF parts = <<>> THEN <<>>
  ELSE IF Len(parts) = 1 THEN parts[1]
  ELSE parts[1] \o sep \o join(Tail(parts), sep)

\* s.split(c) for a one-character separator c
RECURSIVE splitFrom(_, _, _)
splitFrom(s, c, cur) ==
  IF s = <<>> THEN <<cur>>
  ELSE IF Head(s) = c THEN <<cur>> \o splitFrom(Tail(s), c, <<>>)
  ELSE splitFrom(Tail(s), c, Append(cur, Head(s)))
split(s, c) == splitFrom(s, c, <<>>)

\* s.replace(p, r) for a string pattern p: the first occurrence only
replaceFirst(s, p, r) ==
  IF includes(s, p)
  THEN LET i == CHOOSE k \in 1..(Len(s) - Len(p) + 1) :
                  /\ SubSeq(s, k, k + Len(p) - 1) = p
                  /\ \A m \in 1..(k - 1) : SubSeq(s, m, m + Len(p) - 1) # p
       IN SubSeq(s, 1, i - 1) \o r \o SubSeq(s, i + Len(p), Len(s))
  ELSE s

\* s.replace(/^p/, "") for a literal prefix p
stripPrefix(s, p) == IF startsWith(s, p) THEN SubSeq(s, Len(p) + 1, Len(s)) ELSE s

\* s.replace(/([A-Z])/g, "-$1")
RECURSIVE dashUpper(_)
dashUpper(s) ==
  IF s = <<>> THEN <<>>
  ELSE (IF IsUpper(Head(s)) THEN <<"-", Head(s)>> ELSE <<Head(s)>>)
         \o dashUpper(Tail(s))

\* function normalizeId(id): id.replace(/[^a-zA-Z0-9_\-:.]/g, "_")
normalizeId(id) == [i \in 1..Len(id) |-> IF id[i] \in IdChars THEN id[i] ELSE "_"]

\* Array.from(new Set(xs)): first occurrences, in order
RECURSIVE uniq(_)
uniq(xs) ==
  IF xs = <<>> THEN <<>>
  ELSE LET init == uniq(SubSeq(xs, 1, Len(xs) - 1))
           x == xs[Len(xs)]
       IN IF x \in Range(init) THEN init ELSE Append(init, x)

RECURSIVE flatten(_)
flatten(ss) == IF ss = <<>> THEN <<>> ELSE Head(ss) \o flatten(Tail(ss))

\* xs.filter(i => keep[i])
RECURSIVE filterSeq(_, _)
filterSeq(xs, keep) ==
  IF xs = <<>> THEN <<>>
  ELSE (IF keep[1] THEN <<Head(xs)>> ELSE <<>>) \o filterSeq(Tail(xs), Tail(keep))

(***************************************************************************)
(* JSON schema values                                                      *)
(***************************************************************************)
\* A JSON object with none of the fields the code reads.  ref is "$ref", rel
\* is "x-osdu-relationship" (a sequence of [GroupType, EntityType]), type is
\* a string-valued "type" and typeArr an array-valued one, sid is "$id",
\* dschema is "$schema", source is "x-osdu-schema-source", items holds zero
\* or one schema.  typeArr is NoArray when "type" is no array.
Obj == [jt |-> "object", ref |-> <<>>, rel |-> <<>>, type |-> <<>>,
        typeArr |-> <<<<"undefined">>>>, properties |-> <<>>, allOf |-> <<>>,
        anyOf |-> <<>>,
        oneOf |-> <<>>, items |-> <<>>, required |-> <<>>,
        description |-> <<>>, title |-> <<>>, sid |-> <<>>, dschema |-> <<>>,
        source |-> <<>>]

\* the values null and undefined
Null == [Obj EXCEPT !.jt = "null"]
Undefined == [Obj EXCEPT !.jt = "undefined"]

\* a value that is a number other than 0, a string other than "" or an array
\* of numbers
JNumber == [Obj EXCEPT !.jt = "number"]
JString == [Obj EXCEPT !.jt = "string"]
JArray == [Obj EXCEPT !.jt = "array"]

\* if (v): null and undefined are the falsy values among the JSON values above
Truthy(v) == v.jt \notin {"null", "undefined"}

\* the negation of the guard "!obj || typeof obj !== 'object'": typeof of an
\* array is "object" too
IsObject(obj) == obj.jt \in {"object", "array"}

\* the value of r.GroupType or r.EntityType when the entry has no such field;
\* no string equals it, every string being a sequence of single characters
Absent == <<"undefined">>

\* `${x}`: "undefined" for an absent field, the string itself otherwise, ""
\* included
tpl(x) == IF x = Absent THEN <<"u","n","d","e","f","i","n","e","d">> ELSE x

\* x || "" and x || undefined of a string field, an absent string being kept
\* as ""
orEmpty(x) == IF x = Absent THEN <<>> ELSE x

\* the typeArr of an object whose "type" is no array; no array of strings
\* equals it, the empty array included
NoArray == <<Absent>>

\* the value of a property's "type" as the walk records it
NoType == [k |-> "undefined", s |-> <<>>, a |-> <<>>]

\* v.type || (Array.isArray(v.type) ? v.type.join("|") : v.$ref ? `$ref:${v.$ref}` : undefined)
propType(v) ==
  IF v.typeArr # NoArray THEN [k |-> "array", s |-> <<>>, a |-> v.typeArr]
  ELSE IF v.type # <<>> THEN [k |-> "string", s |-> v.type, a |-> <<>>]
  ELSE IF v.ref # <<>>
       THEN [k |-> "string", s |-> <<"$","r","e","f",":">> \o v.ref, a |-> <<>>]
       ELSE NoType

(***************************************************************************)
(* collectFromSchema                                                       *)
(***************************************************************************)
NoCollect == [properties |-> <<>>, relations |-> <<>>, refs |-> <<>>]

\* the three arrays of b appended to those of a, in execution order
CollectCat(a, b) ==
  [properties |-> a.properties \o b.properties,
   relations |-> a.relations \o b.relations,
   refs |-> a.refs \o b.refs]

\* const depth = name.split(".").length
nameDepth(name) == Len(split(name, "."))

\* const required = depth === 1 && rootRequired.includes(k)
propRequired(rootRequired, k, depth) == depth = 1 /\ k \in Range(rootRequired)

\* props.push({ name, type, description, required, depth })
propEntry(rootRequired, path, k, v) ==
  LET name == join(Append(path, k), <<".">>)
      depth == nameDepth(name)
  IN [name |-> name, type |-> propType(v), description |-> v.description,
      required |-> propRequired(rootRequired, k, depth), depth |-> depth]

\* rels.push({ kind: `${r.GroupType}--${r.EntityType}`, target: path.join(".") || "(root)", type: "relationship" })
relEntry(r, path) ==
  [kind |-> tpl(r.GroupType) \o <<"-","-">> \o tpl(r.EntityType),
   target |-> IF join(path, <<".">>) = <<>> THEN <<"(","r","o","o","t",")">>
              ELSE join(path, <<".">>),
   type |-> "relationship"]

RECURSIVE walk(_, _, _)
RECURSIVE walkProps(_, _, _)
RECURSIVE walkEach(_, _, _)

\* function walk(obj, path) of collectFromSchema
walk(rootRequired, obj, path) ==
  IF ~IsObject(obj) THEN NoCollect
  ELSE LET hitRef == IF obj.ref # <<>>
                     THEN [properties |-> <<>>,
                           relations |-> <<[kind |-> <<"$","r","e","f">>,
                                            target |-> obj.ref, type |-> "ref"]>>,
                           refs |-> <<obj.ref>>]
                     ELSE NoCollect
           hitRel == [properties |-> <<>>,
                      relations |-> [i \in 1..Len(obj.rel) |-> relEntry(obj.rel[i], path)],
                      refs |-> <<>>]
       IN CollectCat(hitRef,
          CollectCat(hitRel,
          CollectCat(walkProps(rootRequired, obj.properties, path),
          CollectCat(walkEach(rootRequired, obj.allOf, path),
          CollectCat(walkEach(rootRequired, obj.anyOf, path),
          CollectCat(walkEach(rootRequired, obj.oneOf, path),
                     walkEach(rootRequired, obj.items, path)))))))

\* for (const [k, v] of Object.entries(obj.properties)) { props.push(..); walk(v, [...path, k]) }
walkProps(rootRequired, kvs, path) ==
  IF kvs = <<>> THEN NoCollect
  ELSE LET k == Head(kvs).key
           v == Head(kvs).value
           here == [properties |-> <<propEntry(rootRequired, path, k, v)>>,
                    relations |-> <<>>, refs |-> <<>>]
       IN CollectCat(here,
          CollectCat(walk(rootRequired, v, Append(path, k)),
                     walkProps(rootRequired, Tail(kvs), path)))

\* for (const sub of subs) walk(sub, path)
walkEach(rootRequired, subs, path) ==
  IF subs = <<>> THEN NoCollect
  ELSE CollectCat(walk(rootRequired, Head(subs), path),
                  walkEach(rootRequired, Tail(subs), path))

\* the calls a walk has made, and whether it has ended in a TypeError
NoCalls == [calls |-> <<>>, threw |-> FALSE]

\* the calls of a, followed by the calls of b unless a has thrown
callsThen(a, b) ==
  IF a.threw THEN a ELSE [calls |-> a.calls \o b.calls, threw |-> b.threw]

RECURSIVE walkCalls(_, _)
RECURSIVE walkCallsProps(_, _)
RECURSIVE walkCallsEach(_, _)

\* the calls walk(obj, path) that collectFromSchema makes, in order, up to
\* the TypeError if there is one
walkCalls(obj, path) ==
  callsThen([calls |-> <<[obj |-> obj, path |-> path]>>, threw |-> FALSE],
            IF ~IsObject(obj) THEN NoCalls
            ELSE callsThen(walkCallsProps(obj.properties, path),
                 callsThen(walkCallsEach(obj.allOf, path),
                 callsThen(walkCallsEach(obj.anyOf, path),
                 callsThen(walkCallsEach(obj.oneOf, path),
                           walkCallsEach(obj.items, path))))))

\* for (const [k, v] of Object.entries(obj.properties)) { const type =
\* v.type || ...; ...; walk(v, [...path, k]) }: v.type of a v that is null
\* throws before walk is called
walkCallsProps(kvs, path) ==
  IF kvs = <<>> THEN NoCalls
  ELSE IF ~Truthy(Head(kvs).value) THEN [calls |-> <<>>, threw |-> TRUE]
  ELSE callsThen(walkCalls(Head(kvs).value, Append(path, Head(kvs).key)),
                 walkCallsProps(Tail(kvs), path))

\* for (const sub of subs) walk(sub, path)
walkCallsEach(subs, path) ==
  IF subs = <<>> THEN NoCalls
  ELSE callsThen(walkCalls(Head(subs), path), walkCallsEach(Tail(subs), path))

\* function collectFromSchema(schema)
collectFromSchema(schema) ==
  LET rootRequired == IF IsObject(schema) THEN schema.required ELSE <<>>
  IN walk(rootRequired, schema, <<>>)

(***************************************************************************)
(* collectPropsOnly                                                        *)
(***************************************************************************)
RECURSIVE walkPropsOnly(_, _)
RECURSIVE walkPropsOnlyKvs(_, _)
RECURSIVE walkPropsOnlyEach(_, _)

\* function walk(o, path) of collectPropsOnly
walkPropsOnly(o, path) ==
  IF ~IsObject(o) THEN <<>>
  ELSE walkPropsOnlyKvs(o.properties, path)
         \o walkPropsOnlyEach(o.allOf, path)
         \o walkPropsOnlyEach(o.anyOf, path)
         \o walkPropsOnlyEach(o.oneOf, path)
         \o walkPropsOnlyEach(o.items, path)

walkPropsOnlyKvs(kvs, path) ==
  IF kvs = <<>> THEN <<>>
  ELSE LET k == Head(kvs).key
           v == Head(kvs).value
       IN <<[name |-> join(Append(path, k), <<".">>), type |-> propType(v),
             description |-> v.description]>>
            \o walkPropsOnly(v, Append(path, k))
            \o walkPropsOnlyKvs(Tail(kvs), path)

walkPropsOnlyEach(subs, path) ==
  IF subs = <<>> THEN <<>>
  ELSE walkPropsOnly(Head(subs), path) \o walkPropsOnlyEach(Tail(subs), path)

\* function collectPropsOnly(schema)
collectPropsOnly(schema) == walkPropsOnly(schema, <<>>)

RECURSIVE walkThrows(_)
RECURSIVE walkThrowsEach(_)

\* the walks of collectFromSchema and of collectPropsOnly read v.type of
\* every value v of a properties map before they test v: a TypeError when v
\* is null
walkThrows(obj) ==
  /\ IsObject(obj)
  /\ \/ \E i \in DOMAIN obj.properties :
          \/ obj.properties[i].value.jt \in {"null", "undefined"}
          \/ walkThrows(obj.properties[i].value)
     \/ walkThrowsEach(obj.allOf)
     \/ walkThrowsEach(obj.anyOf)
     \/ walkThrowsEach(obj.oneOf)
     \/ walkThrowsEach(obj.items)

walkThrowsEach(subs) == \E i \in DOMAIN subs : walkThrows(subs[i])

(***************************************************************************)
(* extractErdRelationships                                                 *)
(***************************************************************************)
sConnection == <<"c","o","n","n","e","c","t","i","o","n">>
sConnect == <<"c","o","n","n","e","c","t">>
sComponent == <<"c","o","m","p","o","n","e","n","t">>
sParent == <<"p","a","r","e","n","t">>
sAssembly == <<"a","s","s","e","m","b","l","y">>
sNode == <<"n","o","d","e">>

\* the connection test of the direct hit
isConnectionHit(propertyName, targetEntity) ==
  \/ includes(toLowerCase(propertyName), sConnection)
  \/ includes(toLowerCase(targetEntity), sConnection)
  \/ includes(toLowerCase(propertyName), sConnect)

\* the component test of the direct hit
isComponentHit(propertyName, targetEntity) ==
  \/ includes(toLowerCase(targetEntity), sComponent)
  \/ includes(toLowerCase(propertyName), sComponent)

\* the parent/assembly test of the direct hit
isParentHit(propertyName) ==
  \/ includes(toLowerCase(propertyName), sParent)
  \/ includes(toLowerCase(propertyName), sAssembly)

\* let relationshipType = "references", then three independent if statements,
\* each overwriting what the one before it assigned
relationshipTypeOf(propertyName, targetEntity) ==
  LET t0 == "references"
      t1 == IF isConnectionHit(propertyName, targetEntity) THEN "connects to" ELSE t0
      t2 == IF isComponentHit(propertyName, targetEntity) THEN "contains" ELSE t1
      t3 == IF isParentHit(propertyName) THEN "part of" ELSE t2
  IN t3

\* let isConnectable = false, set to true by the connection test alone
isConnectableOf(propertyName, targetEntity) ==
  isConnectionHit(propertyName, targetEntity)

\* erdRels.push({...}) of the direct hit
directHit(obj, r, path) ==
  LET propertyName == path[Len(path)]
      targetEntity == orEmpty(r.EntityType)
  IN [sourceProperty |-> propertyName,
      targetEntity |-> targetEntity,
      relationshipType |-> relationshipTypeOf(propertyName, targetEntity),
      cardinality |-> IF obj.type = <<"a","r","r","a","y">> THEN "one-to-many"
                      ELSE "one-to-one",
      isConnectable |-> isConnectableOf(propertyName, targetEntity),
      groupType |-> orEmpty(r.GroupType)]

\* erdRels.push({...}) of the array-items scan
arrayItemsHit(r, path) ==
  [sourceProperty |-> path[Len(path)],
   targetEntity |-> orEmpty(r.EntityType),
   relationshipType |-> "contains",
   cardinality |-> "one-to-many",
   isConnectable |-> TRUE,
   groupType |-> orEmpty(r.GroupType)]

\* a scan that records nothing for the items of an array
arrayItemsScan_None(obj, path) == <<>>

\* if (obj.type === "array" && obj.items && path.length > 0) and the name test
arrayItemsScan(obj, path) ==
  IF /\ obj.type = <<"a","r","r","a","y">>
     /\ obj.items # <<>>
     /\ Len(path) > 0
     /\ LET propertyName == toLowerCase(path[Len(path)])
        IN \/ includes(propertyName, sConnection)
           \/ includes(propertyName, sComponent)
           \/ includes(propertyName, sNode)
  THEN [i \in 1..Len(obj.items[1].rel) |-> arrayItemsHit(obj.items[1].rel[i], path)]
  ELSE <<>>

RECURSIVE walkForErd(_, _)
RECURSIVE walkForErdProps(_, _)
RECURSIVE walkForErdEach(_, _)

\* function walkForErd(obj, path) of extractErdRelationships
walkForErd(obj, path) ==
  IF ~IsObject(obj) THEN <<>>
  ELSE (IF Len(path) > 0
        THEN [i \in 1..Len(obj.rel) |-> directHit(obj, obj.rel[i], path)]
        ELSE <<>>)
         \o arrayItemsScan(obj, path)
         \o walkForErdProps(obj.properties, path)
         \o walkForErdEach(obj.allOf, path)
         \o walkForErdEach(obj.anyOf, path)
         \o walkForErdEach(obj.oneOf, path)
         \o walkForErdEach(obj.items, path)

\* for (const [k, v] of Object.entries(obj.properties)) walkForErd(v, [...path, k])
walkForErdProps(kvs, path) ==
  IF kvs = <<>> THEN <<>>
  ELSE walkForErd(Head(kvs).value, Append(path, Head(kvs).key))
         \o walkForErdProps(Tail(kvs), path)

\* for (const sub of subs) walkForErd(sub, path)
walkForErdEach(subs, path) ==
  IF subs = <<>> THEN <<>>
  ELSE walkForErd(Head(subs), path) \o walkForErdEach(Tail(subs), path)

RECURSIVE walkForErdCalls(_, _)
RECURSIVE walkForErdCallsProps(_, _)
RECURSIVE walkForErdCallsEach(_, _)

\* the calls walkForErd(obj, path) that extractErdRelationships makes, in
\* order
walkForErdCalls(obj, path) ==
  <<[obj |-> obj, path |-> path]>>
    \o (IF ~IsObject(obj) THEN <<>>
        ELSE walkForErdCallsProps(obj.properties, path)
               \o walkForErdCallsEach(obj.allOf, path)
               \o walkForErdCallsEach(obj.anyOf, path)
               \o walkForErdCallsEach(obj.oneOf, path)
               \o walkForErdCallsEach(obj.items, path))

\* for (const [k, v] of Object.entries(obj.properties)) walkForErd(v, [...path, k]):
\* the call is made for every v, a null included
walkForErdCallsProps(kvs, path) ==
  IF kvs = <<>> THEN <<>>
  ELSE walkForErdCalls(Head(kvs).value, Append(path, Head(kvs).key))
         \o walkForErdCallsProps(Tail(kvs), path)

walkForErdCallsEach(subs, path) ==
  IF subs = <<>> THEN <<>>
  ELSE walkForErdCalls(Head(subs), path) \o walkForErdCallsEach(Tail(subs), path)

\* function extractErdRelationships(schema, schemaTitle)
extractErdRelationships(schema) == walkForErd(schema, <<>>)

(***************************************************************************)
(* buildGraph: nodes                                                       *)
(***************************************************************************)
sEntityPrefix == <<"e","n","t","i","t","y",":",":">>
sRefPrefix == <<"r","e","f",":",":">>
sRelInfix == <<":",":","r","e","l",":",":">>
sMasterData == <<"m","a","s","t","e","r","-","d","a","t","a">>
sReferenceData == <<"r","e","f","e","r","e","n","c","e","-","d","a","t","a">>
sWorkProductComponent ==
  <<"w","o","r","k","-","p","r","o","d","u","c","t","-","c","o","m","p","o","n","e","n","t">>
sJson == <<".","j","s","o","n">>

\* a graph node; the fields a builder does not set are "undefined" or empty
NodeOf(id) ==
  [id |-> id, type |-> "default", nodeType |-> "undefined", label |-> <<>>,
   subtitle |-> <<>>, properties |-> <<>>, relations |-> <<>>,
   erdRelationships |-> <<>>, filePath |-> <<>>, schemaId |-> <<>>,
   schema |-> Undefined, category |-> "undefined", x |-> 0, y |-> 0]

\* const filter = (opts.filter || "").trim().toLowerCase()
filterOf(o) == toLowerCase(trim(o.filter))

\* const erdView = opts.erdView !== false
erdViewOf(o) == o.erdView # "false"

\* const id = model.id || title
idOf(m) == IF m.id # <<>> THEN m.id ELSE m.title

\* const mainId = normalizeId(id)
mainIdOf(m) == normalizeId(idOf(m))

\* properties.filter(p => p.name.toLowerCase().includes(filter) || (p.description || "").toLowerCase().includes(filter))
filteredPropsOf(properties, filter) ==
  IF filter = <<>> THEN properties
  ELSE filterSeq(properties,
         [i \in 1..Len(properties) |->
            \/ includes(toLowerCase(properties[i].name), filter)
            \/ includes(toLowerCase(properties[i].description), filter)])

\* relations.filter(r => r.kind.toLowerCase().includes(filter) || r.target.toLowerCase().includes(filter))
filteredRelsOf(relations, filter) ==
  IF filter = <<>> THEN relations
  ELSE filterSeq(relations,
         [i \in 1..Len(relations) |->
            \/ includes(toLowerCase(relations[i].kind), filter)
            \/ includes(toLowerCase(relations[i].target), filter)])

\* the main node of the ERD view
erdMainNode(m, filteredProps, filteredRels, erdRelationships) ==
  [NodeOf(mainIdOf(m)) EXCEPT
     !.label = m.title, !.subtitle = idOf(m), !.properties = filteredProps,
     !.relations = filteredRels, !.erdRelationships = erdRelationships,
     !.filePath = m.path,
     !.schemaId = IF IsObject(m.schema) THEN m.schema.sid ELSE <<>>,
     !.schema = m.schema, !.nodeType = "entity", !.type = "erd-entity"]

\* a category inference that knows master-data alone
inferCategory_MasterDataOnly(from) ==
  IF from # <<>> /\ includes(toLowerCase(from), sMasterData)
  THEN "master-data" ELSE "undefined"

\* function inferCategory(from)
inferCategory(from) ==
  IF from = <<>> THEN "undefined"
  ELSE LET s == toLowerCase(from)
       IN IF includes(s, <<"/">> \o sMasterData \o <<"/">>) \/ includes(s, sMasterData)
          THEN "master-data"
          ELSE IF \/ includes(s, <<"/">> \o sReferenceData \o <<"/">>)
                  \/ includes(s, sReferenceData)
          THEN "reference-data"
          ELSE IF \/ includes(s, <<"/">> \o sWorkProductComponent \o <<"/">>)
                  \/ includes(s, sWorkProductComponent)
          THEN "work-product-component"
          ELSE "undefined"

\* xs.find(pred): the index of the first element that pred[i] holds of, or 0
findFirst(pred) ==
  IF \E i \in DOMAIN pred : pred[i]
  THEN CHOOSE i \in DOMAIN pred : pred[i] /\ \A j \in 1..(i - 1) : ~pred[j]
  ELSE 0

\* the candidate keys: those of the relationship's GroupType when there are any
entityCandidates(index, erdRel) ==
  LET indexKeys == [i \in 1..Len(index) |-> index[i].key]
  IN IF erdRel.groupType # <<>>
     THEN LET groupSegment == toLowerCase(erdRel.groupType)
              filtered ==
                filterSeq(indexKeys,
                  [i \in 1..Len(indexKeys) |->
                     \/ includes(toLowerCase(indexKeys[i]),
                                 <<"/">> \o groupSegment \o <<"/">>)
                     \/ includes(toLowerCase(indexKeys[i]), groupSegment)])
          IN IF Len(filtered) > 0 THEN filtered ELSE indexKeys
     ELSE indexKeys

\* index[key]
indexGet(index, key) ==
  IF \E i \in DOMAIN index : index[i].key = key
  THEN index[CHOOSE i \in DOMAIN index : index[i].key = key].value
  ELSE Undefined

\* the predicate of candidates.find for a related entity
entityKeyMatches(index, key, erdRel) ==
  LET keyLower == toLowerCase(key)
      targetLower == toLowerCase(erdRel.targetEntity)
      sch == indexGet(index, key)
      titleMatch == IsObject(sch) /\ toLowerCase(sch.title) = targetLower
      idMatch == /\ IsObject(sch)
                 /\ includes(toLowerCase(sch.sid), <<"-","-">> \o targetLower)
      fileMatch == \/ includes(keyLower, targetLower)
                   \/ includes(keyLower, toLowerCase(dashUpper(erdRel.targetEntity)))
  IN titleMatch \/ idMatch \/ fileMatch

\* const matchKey = candidates.find(...), <<>> when there is none
entityMatchKey(o, erdRel) ==
  IF ~o.hasIndex THEN <<>>
  ELSE LET candidates == entityCandidates(o.index, erdRel)
           hit == findFirst([i \in 1..Len(candidates) |->
                               entityKeyMatches(o.index, candidates[i], erdRel)])
       IN IF hit = 0 THEN <<>> ELSE candidates[hit]

\* entityNodes.set(entityId, {...}), size being entityNodes.size
relatedEntityNode(o, erdRel, size) ==
  LET entityId == normalizeId(sEntityPrefix \o erdRel.targetEntity)
      matchKey == entityMatchKey(o, erdRel)
      targetSchema == IF matchKey # <<>> THEN indexGet(o.index, matchKey) ELSE Null
      targetFilePath == matchKey
      targetSchemaId == IF IsObject(targetSchema) THEN targetSchema.sid ELSE <<>>
      category == IF inferCategory(targetFilePath) # "undefined"
                  THEN inferCategory(targetFilePath)
                  ELSE inferCategory(targetSchemaId)
  IN [NodeOf(entityId) EXCEPT
        !.x = 400, !.y = size * 200, !.label = erdRel.targetEntity,
        !.subtitle = <<"R","e","l","a","t","e","d"," ","E","n","t","i","t","y">>,
        !.properties = IF matchKey # <<>> THEN collectPropsOnly(targetSchema)
                       ELSE <<>>,
        !.schema = targetSchema, !.filePath = targetFilePath,
        !.schemaId = targetSchemaId, !.nodeType = "related-entity",
        !.category = category, !.type = "erd-entity"]

RECURSIVE entityNodesLoop(_, _, _)
\* for (const erdRel of erdRelationships) { ... }: the values of the map
\* entityNodes in insertion order
entityNodesLoop(o, erdRels, entityNodes) ==
  IF erdRels = <<>> THEN entityNodes
  ELSE LET erdRel == Head(erdRels)
           entityId == normalizeId(sEntityPrefix \o erdRel.targetEntity)
           has == \E i \in DOMAIN entityNodes : entityNodes[i].id = entityId
       IN IF erdRel.targetEntity = <<>> \/ has
          THEN entityNodesLoop(o, Tail(erdRels), entityNodes)
          ELSE entityNodesLoop(o, Tail(erdRels),
                 Append(entityNodes, relatedEntityNode(o, erdRel, Len(entityNodes))))

\* r.replace(/^\.\//, "").replace(/^\//, "").replace(/^[.]{2}\//, "")
refStripped(r) ==
  stripPrefix(stripPrefix(stripPrefix(r, <<".","/">>), <<"/">>), <<".",".","/">>)

\* r.split("/").pop()
refLast(r) == LET parts == split(r, "/") IN parts[Len(parts)]

\* k.endsWith(stripped r) || k.endsWith("/" + r.split("/").pop())
refKeyMatches(k, r) ==
  endsWith(k, refStripped(r)) \/ endsWith(k, <<"/">> \o refLast(r))

\* a find whose predicate holds of every key
refMatchKey_AnyKey(o, r) ==
  IF ~o.hasIndex \/ o.index = <<>> THEN <<>> ELSE o.index[1].key

\* const matchKey = Object.keys(opts.index).find(...), <<>> when there is none
refMatchKey(o, r) ==
  IF ~o.hasIndex THEN <<>>
  ELSE LET hit == findFirst([i \in 1..Len(o.index) |->
                               refKeyMatches(o.index[i].key, r)])
       IN IF hit = 0 THEN <<>> ELSE o.index[hit].key

\* the id of the node of a $ref
refIdOf(r) == normalizeId(sRefPrefix \o r)

\* the node of a $ref with an id that holds its place i among the $refs
erdRefNode_IdWithPlace(o, r, i) ==
  [NodeOf(normalizeId(sRefPrefix \o [k \in 1..i |-> "i"] \o <<":",":">> \o r)) EXCEPT
     !.nodeType = "abstract", !.type = "erd-entity"]

\* the node of the i-th (from 0) distinct $ref of the ERD view
erdRefNode(o, r, i) ==
  LET matchKey == refMatchKey(o, r)
      targetSchema == IF matchKey # <<>> THEN indexGet(o.index, matchKey)
                      ELSE Undefined
      found == Truthy(targetSchema)
      last == refLast(r)
      label == IF replaceFirst(last, sJson, <<>>) # <<>>
               THEN replaceFirst(last, sJson, <<>>) ELSE r
  IN [NodeOf(refIdOf(r)) EXCEPT
        !.x = 0 - 400, !.y = i * 150 + 100, !.label = label,
        !.subtitle = <<"A","b","s","t","r","a","c","t"," ","S","c","h","e","m","a">>,
        !.properties = IF found THEN collectPropsOnly(targetSchema) ELSE <<>>,
        !.filePath = IF found THEN matchKey ELSE <<>>,
        !.schemaId = IF found THEN targetSchema.sid ELSE <<>>,
        !.schema = IF found THEN targetSchema ELSE Undefined,
        !.nodeType = "abstract", !.type = "erd-entity"]

\* Array.from(new Set(refs)).map((r, i) => ...)
erdRefNodes(o, refs) ==
  LET rs == uniq(refs) IN [i \in 1..Len(rs) |-> erdRefNode(o, rs[i], i - 1)]

(***************************************************************************)
(* buildGraph: edges                                                       *)
(***************************************************************************)
\* String(n) for n >= 0
RECURSIVE numToStr(_)
numToStr(n) ==
  IF n < 10 THEN <<DigitChars[n + 1]>>
  ELSE numToStr(n \div 10) \o <<DigitChars[(n % 10) + 1]>>

\* a graph edge; the fields a builder does not set are "undefined" or empty
EdgeOf(id, source, target) ==
  [id |-> id, source |-> source, target |-> target, type |-> "undefined",
   sourceProperty |-> <<>>, relationshipType |-> "undefined",
   cardinality |-> "undefined", isConnectable |-> FALSE, label |-> <<>>,
   dataLabel |-> <<>>]

\* const baseId = `${mainId}->erd->${targetEntityId}::${normalizeId(erdRel.sourceProperty)}`
erdBaseId(mainId, erdRel) ==
  mainId \o <<"-",">","e","r","d","-",">">>
         \o normalizeId(sEntityPrefix \o erdRel.targetEntity)
         \o <<":",":">> \o normalizeId(erdRel.sourceProperty)

\* const edgeId = nextCount > 1 ? `${baseId}#${nextCount}` : baseId
erdEdgeId(baseId, nextCount) ==
  IF nextCount > 1 THEN baseId \o <<"#">> \o numToStr(nextCount) ELSE baseId

\* edges.push({...}) of an ERD relationship
erdEdge(mainId, erdRel, nextCount) ==
  [EdgeOf(erdEdgeId(erdBaseId(mainId, erdRel), nextCount), mainId,
          normalizeId(sEntityPrefix \o erdRel.targetEntity)) EXCEPT
     !.type = IF erdRel.isConnectable THEN "connectable" ELSE "erd-relationship",
     !.sourceProperty = erdRel.sourceProperty,
     !.relationshipType = erdRel.relationshipType,
     !.cardinality = erdRel.cardinality,
     !.isConnectable = erdRel.isConnectable,
     !.label = IF erdRel.isConnectable
               THEN erdRel.sourceProperty
                      \o <<" ","(","c","o","n","n","e","c","t","a","b","l","e",")">>
               ELSE erdRel.sourceProperty]

\* entityNodes.get(targetEntityId) is defined
hasTargetNode(entityNodes, erdRel) ==
  \E i \in DOMAIN entityNodes :
     entityNodes[i].id = normalizeId(sEntityPrefix \o erdRel.targetEntity)

\* for (const erdRel of erdRelationships) { if (targetNode) { ... edges.push } }
\* edgeIdOccurrences.get(baseId) is the number of edges pushed before with
\* that baseId
erdEdges(mainId, erdRels, entityNodes) ==
  LET made == [i \in 1..Len(erdRels) |-> hasTargetNode(entityNodes, erdRels[i])]
      nextCount(i) ==
        Cardinality({j \in 1..(i - 1) :
                       /\ made[j]
                       /\ erdBaseId(mainId, erdRels[j]) = erdBaseId(mainId, erdRels[i])}) + 1
  IN filterSeq([i \in 1..Len(erdRels) |-> erdEdge(mainId, erdRels[i], nextCount(i))],
               made)

\* for (const r of new Set(refs)) edges.push({...}) of the ERD view
erdRefEdges(mainId, refs) ==
  LET rs == uniq(refs)
  IN [i \in 1..Len(rs) |->
        [EdgeOf(mainId \o <<"-",">">> \o refIdOf(rs[i]), mainId, refIdOf(rs[i])) EXCEPT
           !.type = "inheritance",
           !.label = <<"e","x","t","e","n","d","s">>]]

\* function validateEdges(edges, nodes): the edges whose source and target are
\* non-empty ids of nodes; the clean copy keeps id, source, target, data and label
validateEdges(edges, nodes) ==
  LET nodeIds == {nodes[i].id : i \in DOMAIN nodes}
  IN filterSeq(edges,
       [i \in 1..Len(edges) |->
          /\ ~(edges[i].source = <<>> \/ edges[i].target = <<>>)
          /\ ~(edges[i].source \notin nodeIds \/ edges[i].target \notin nodeIds)])

(***************************************************************************)
(* buildOriginalGraph                                                      *)
(***************************************************************************)
\* the main node of the original view: no nodeType
originalMainNode(m, filteredProps, filteredRels) ==
  [NodeOf(mainIdOf(m)) EXCEPT
     !.label = m.title, !.subtitle = idOf(m), !.properties = filteredProps,
     !.relations = filteredRels, !.filePath = m.path,
     !.schemaId = IF IsObject(m.schema) THEN m.schema.sid ELSE <<>>,
     !.schema = m.schema, !.type = "default"]

\* the node of the i-th (from 0) distinct $ref of the original view
originalRefNode(o, r, i) ==
  LET matchKey == refMatchKey(o, r)
      targetSchema == IF matchKey # <<>> THEN indexGet(o.index, matchKey)
                      ELSE Undefined
      found == Truthy(targetSchema)
  IN [NodeOf(refIdOf(r)) EXCEPT
        !.x = 0, !.y = i * 100 + 100,
        !.label = IF refLast(r) # <<>> THEN refLast(r) ELSE r,
        !.subtitle = r,
        !.properties = IF found THEN collectPropsOnly(targetSchema) ELSE <<>>,
        !.filePath = IF found THEN matchKey ELSE <<>>,
        !.schemaId = IF found THEN targetSchema.sid ELSE <<>>,
        !.schema = IF found THEN targetSchema ELSE Undefined,
        !.type = "default"]

\* const uniqueRelKinds = Array.from(new Set(filteredRels.map(r => r.kind)))
uniqueRelKindsOf(filteredRels) ==
  uniq([i \in 1..Len(filteredRels) |-> filteredRels[i].kind])

\* normalizeId(`${mainId}::rel::${k}`)
relKindId(mainId, k) == normalizeId(mainId \o sRelInfix \o k)

\* function buildOriginalGraph(model, opts, filteredProps, filteredRels, refs, mainId, title, id)
buildOriginalGraph(m, o, filteredProps, filteredRels, refs) ==
  LET mainId == mainIdOf(m)
      rs == uniq(refs)
      refNodes == [i \in 1..Len(rs) |-> originalRefNode(o, rs[i], i - 1)]
      refEdges == [i \in 1..Len(rs) |->
                     [EdgeOf(mainId \o <<"-",">">> \o refIdOf(rs[i]), mainId,
                             refIdOf(rs[i])) EXCEPT !.type = "ref"]]
      uniqueRelKinds == uniqueRelKindsOf(filteredRels)
      relNodes == [i \in 1..Len(uniqueRelKinds) |->
                     [NodeOf(relKindId(mainId, uniqueRelKinds[i])) EXCEPT
                        !.x = 300, !.y = (i - 1) * 80 + 100,
                        !.label = uniqueRelKinds[i],
                        !.subtitle = <<"r","e","l","a","t","i","o","n","s","h","i","p">>,
                        !.type = "default"]]
      relEdges == [i \in 1..Len(uniqueRelKinds) |->
                     [EdgeOf(mainId \o <<"-","r","e","l","-">> \o numToStr(i - 1),
                             mainId, relKindId(mainId, uniqueRelKinds[i])) EXCEPT
                        !.type = "relationship",
                        !.dataLabel = uniqueRelKinds[i]]]
      nodes == <<originalMainNode(m, filteredProps, filteredRels)>>
                 \o refNodes \o relNodes
      edges == refEdges \o relEdges
  IN [nodes |-> nodes, edges |-> validateEdges(edges, nodes)]

(***************************************************************************)
(* buildGraph                                                              *)
(***************************************************************************)
\* buildErdGraph with the nodes of the $refs left out of the list it returns,
\* the edges having been validated against the full list
buildErdGraph_RefNodesNotReturned(m, o, filteredProps, filteredRels, refs, erdRelationships) ==
  LET mainId == mainIdOf(m)
      entityNodes == entityNodesLoop(o, erdRelationships, <<>>)
      nodes == <<erdMainNode(m, filteredProps, filteredRels, erdRelationships)>>
                 \o entityNodes
      edges == erdEdges(mainId, erdRelationships, entityNodes)
                 \o erdRefEdges(mainId, refs)
  IN [nodes |-> nodes, edges |-> validateEdges(edges, nodes \o erdRefNodes(o, refs))]

\* the ERD view of buildGraph
buildErdGraph(m, o, filteredProps, filteredRels, refs, erdRelationships) ==
  LET mainId == mainIdOf(m)
      entityNodes == entityNodesLoop(o, erdRelationships, <<>>)
      nodes == <<erdMainNode(m, filteredProps, filteredRels, erdRelationships)>>
                 \o entityNodes \o erdRefNodes(o, refs)
      edges == erdEdges(mainId, erdRelationships, entityNodes)
                 \o erdRefEdges(mainId, refs)
  IN [nodes |-> nodes, edges |-> validateEdges(edges, nodes)]

\* export function buildGraph(model, opts)
buildGraph(m, o) ==
  LET filter == filterOf(o)
      c == collectFromSchema(m.schema)
      erdRelationships == extractErdRelationships(m.schema)
      filteredProps == filteredPropsOf(c.properties, filter)
      filteredRels == filteredRelsOf(c.relations, filter)
  IN IF ~erdViewOf(o)
     THEN buildOriginalGraph(m, o, filteredProps, filteredRels, c.refs)
     ELSE buildErdGraph(m, o, filteredProps, filteredRels, c.refs, erdRelationships)

\* buildGraph ends in a TypeError: in collectFromSchema(model.schema), or in
\* collectPropsOnly of the schema an entity or a $ref is resolved to
nodesThrow(nodes) == \E i \in DOMAIN nodes : i > 1 /\ walkThrows(nodes[i].schema)

buildGraphThrows(m, o, g) ==
  \/ walkThrows(m.schema)
  \/ nodesThrow(g.nodes)

\* the outcome of the call buildGraph(m, o), g being the graph it returns
\* when nothing is thrown
outcomeOf(m, o, g) ==
  IF buildGraphThrows(m, o, g)
  THEN [threw |-> TRUE, graph |-> [nodes |-> <<>>, edges |-> <<>>]]
  ELSE [threw |-> FALSE, graph |-> g]

tryBuildGraph(m, o) == outcomeOf(m, o, buildGraph(m, o))

(***************************************************************************)
(* Numbers of the layout: the doubles of the code.  Every coordinate the   *)
(* layout computes comes from integers by +, - and / 2, so it is a dyadic  *)
(* rational; it is kept as i + f1/LimbBase + f2/LimbBase^2 + f3/LimbBase^3 *)
(* with i its floor and 0 <= f1, f2, f3 < LimbBase.  A sum or a difference *)
(* is rounded as the code's is, to 53 significant bits, ties to even.      *)
(***************************************************************************)
LimbBase == 4096 * 4096

Num(n) == [i |-> n, f1 |-> 0, f2 |-> 0, f3 |-> 0]

NumIsZero(a) == a.i = 0 /\ a.f1 = 0 /\ a.f2 = 0 /\ a.f3 = 0

\* the sum of two numbers of this form, not rounded
NumExactAdd(a, b) ==
  LET s3 == a.f3 + b.f3
      s2 == a.f2 + b.f2 + (s3 \div LimbBase)
      s1 == a.f1 + b.f1 + (s2 \div LimbBase)
  IN [i |-> a.i + b.i + (s1 \div LimbBase), f1 |-> s1 % LimbBase,
      f2 |-> s2 % LimbBase, f3 |-> s3 % LimbBase]

\* -a
NumNeg(a) ==
  LET t3 == LimbBase - a.f3
      t2 == LimbBase - 1 - a.f2 + (t3 \div LimbBase)
      t1 == LimbBase - 1 - a.f1 + (t2 \div LimbBase)
  IN [i |-> 0 - a.i - 1 + (t1 \div LimbBase), f1 |-> t1 % LimbBase,
      f2 |-> t2 % LimbBase, f3 |-> t3 % LimbBase]

\* the e with 2^e <= n < 2^(e+1), for n >= 1
floorLog2(n) == CHOOSE e \in 0..29 : 2^e <= n /\ n < 2^(e + 1)

\* the exponent of a number m >= 0: 2^e <= m < 2^(e+1), and of 0 one below
\* that of every number kept here
exponentOf(m) ==
  IF m.i > 0 THEN floorLog2(m.i)
  ELSE IF m.f1 > 0 THEN floorLog2(m.f1) - 24
  ELSE IF m.f2 > 0 THEN floorLog2(m.f2) - 48
  ELSE IF m.f3 > 0 THEN floorLog2(m.f3) - 72
  ELSE 0 - 73

\* m with the limb that is cut set to keptLimb, the limbs below it to 0, and
\* one unit q of that limb added when the rounding is upwards; low tells
\* that the limb is f3, else it is f2
roundUp(m, low, q, keptLimb, up) ==
  NumExactAdd(IF low THEN [m EXCEPT !.f3 = keptLimb]
              ELSE [m EXCEPT !.f2 = keptLimb, !.f3 = 0],
              [i |-> 0, f1 |-> 0,
               f2 |-> IF up /\ ~low THEN q ELSE 0,
               f3 |-> IF up /\ low THEN q ELSE 0])

\* round to nearest, ties to even: upwards when the part cut off is above
\* half of q, or is half of q and the bit above it is odd; above holds the
\* bits above the cut, sticky tells of bits below the limb
roundLimb(m, low, q, limb, above, sticky) ==
  roundUp(m, low, q, limb - (limb % q),
          \/ 2 * (limb % q) > q
          \/ 2 * (limb % q) = q /\ (sticky \/ above % 2 = 1))

\* m with its last drop bits of the 72 rounded away
roundDrop(m, drop) ==
  IF drop <= 0 THEN m
  ELSE IF drop <= 24
  THEN roundLimb(m, TRUE, 2^drop, m.f3,
                 IF drop = 24 THEN m.f2 ELSE m.f3 \div 2^drop, FALSE)
  ELSE roundLimb(m, FALSE, 2^(drop - 24), m.f2,
                 IF drop = 48 THEN m.f1 ELSE m.f2 \div 2^(drop - 24),
                 m.f3 > 0)

\* a rounded to the nearest double: a double of exponent e has 52 - e bits
\* after the point, so that the last 20 + e of the 72 bits kept here are
\* rounded away
NumRound(a) ==
  roundDrop(a, 20 + exponentOf(IF a.i < 0 THEN NumNeg(a) ELSE a))

\* a + b of two doubles
NumAdd(a, b) == NumRound(NumExactAdd(a, b))

\* a - b of two doubles
NumSub(a, b) == NumAdd(a, NumNeg(b))

\* a / 2, which is exact
NumHalf(a) ==
  LET r == a.i % 2
      h1 == r * LimbBase + a.f1
      h2 == (h1 % 2) * LimbBase + a.f2
      h3 == (h2 % 2) * LimbBase + a.f3
  IN [i |-> (a.i - r) \div 2, f1 |-> h1 \div 2, f2 |-> h2 \div 2,
      f3 |-> h3 \div 2]

NumIsNeg(a) == a.i < 0

\* Math.abs(a)
NumAbs(a) == IF NumIsNeg(a) THEN NumNeg(a) ELSE a

\* a < n for an integer n
NumLessInt(a, n) == a.i < n

\* a < b
NumLess(a, b) == NumIsNeg(NumExactAdd(a, NumNeg(b)))

(***************************************************************************)
(* layout.ts                                                               *)
(***************************************************************************)
erdNodeWidth == 300
erdNodeHeight == 180
defaultNodeWidth == 240
defaultNodeHeight == 80
clusterSpacing == 600
verticalSpacing == 220
ErdPadding == 120
Iterations == 8

\* a node of the layout: the node of the graph it copies ({ ...node }) by
\* its index in the input, its id, type and nodeType, and its position
LaidNode(n, idx, x, y) ==
  [idx |-> idx, id |-> n.id, type |-> n.type, nodeType |-> n.nodeType,
   x |-> Num(x), y |-> Num(y)]

\* const getSize = (n) => ...
getSizeW(n) == IF n.type = "erd-entity" THEN erdNodeWidth ELSE defaultNodeWidth
getSizeH(n) == IF n.type = "erd-entity" THEN erdNodeHeight ELSE defaultNodeHeight

\* const isAnchored = (n) => n.data?.nodeType === "entity"
isAnchored(n) == n.nodeType = "entity"

\* Math.ceil(n / 2) and Math.ceil(Math.sqrt(n)) for n >= 0
ceilHalf(n) == (n + 1) \div 2
ceilSqrt(n) == CHOOSE k \in 0..n : k * k >= n /\ \A m \in 0..(k - 1) : m * m < n
ceilDiv(n, d) == (n + d - 1) \div d

\* function layoutLeftColumns(entities, laidOut, ...): the nodes it pushes;
\* entities are pairs <<index in the input, node>>
layoutLeftColumns(entities) ==
  LET maxRows == ceilHalf(Len(entities))
      columns == IF Len(entities) > 10 THEN 2 ELSE 1
      colWidth == erdNodeWidth + 80
      startX == 0 - clusterSpacing - (IF columns > 1 THEN colWidth \div 2 ELSE 0)
  IN [k \in 1..Len(entities) |->
        LET i == k - 1
            col == IF columns = 1 THEN 0 ELSE i % columns
            row == IF columns = 1 THEN i ELSE i \div columns
        IN LaidNode(entities[k][2], entities[k][1], startX - col * colWidth,
                    (row - (maxRows \div 2)) * verticalSpacing)]

\* function layoutRightGrid(entities, laidOut, ...): the nodes it pushes
layoutRightGrid(entities) ==
  LET columns == IF ceilSqrt(Len(entities)) < 3 THEN ceilSqrt(Len(entities)) ELSE 3
      rows == ceilDiv(Len(entities), columns)
      colWidth == erdNodeWidth + 100
      x0 == clusterSpacing
  IN [k \in 1..Len(entities) |->
        LET idx == k - 1
            col == idx % columns
            row == idx \div columns
        IN LaidNode(entities[k][2], entities[k][1], x0 + col * colWidth,
                    (row - (rows \div 2)) * verticalSpacing)]

\* function getEntityConnectionCounts(entities, edges), for one entity
connectionCount(id, edges) ==
  Cardinality({e \in DOMAIN edges : edges[e].source = id \/ edges[e].target = id})

\* related entities left in the order of the input
sortByCount_InputOrder(entities, edges) == entities

\* relatedEntities.slice().sort((a, b) => count[b.id] - count[a.id]): a stable
\* sort, by insertion
RECURSIVE sortByCount(_, _)
sortByCount(entities, edges) ==
  IF entities = <<>> THEN <<>>
  ELSE LET init == sortByCount(SubSeq(entities, 1, Len(entities) - 1), edges)
           e == entities[Len(entities)]
           c == connectionCount(e[2].id, edges)
           \* e goes after every element whose count is at least its own
           at == Cardinality({k \in DOMAIN init :
                                connectionCount(init[k][2].id, edges) >= c})
       IN SubSeq(init, 1, at) \o <<e>> \o SubSeq(init, at + 1, Len(init))

\* nodes.filter(n => n.data.nodeType === t), with the index of each in nodes
nodesOfType(nodes, t) ==
  filterSeq([i \in 1..Len(nodes) |-> <<i, nodes[i]>>],
            [i \in 1..Len(nodes) |-> nodes[i].nodeType = t])

\* a placement that lays out the related entities only when there are two
\* or more
erdPlacement_OneRelatedDropped(nodes, edges) ==
  LET mainEntities == nodesOfType(nodes, "entity")
      relatedEntities == nodesOfType(nodes, "related-entity")
      abstractEntities == nodesOfType(nodes, "abstract")
  IN (IF Len(mainEntities) > 0
      THEN <<LaidNode(mainEntities[1][2], mainEntities[1][1], 0, 0)>>
      ELSE <<>>)
       \o (IF Len(abstractEntities) = 0 THEN <<>>
           ELSE layoutLeftColumns(abstractEntities))
       \o (IF Len(relatedEntities) > 1
           THEN layoutRightGrid(sortByCount(relatedEntities, edges))
           ELSE <<>>)

\* function layoutErdClustered(nodes, edges) up to its final collision pass
erdPlacement(nodes, edges) ==
  LET mainEntities == nodesOfType(nodes, "entity")
      relatedEntities == nodesOfType(nodes, "related-entity")
      abstractEntities == nodesOfType(nodes, "abstract")
  IN (IF Len(mainEntities) > 0
      THEN <<LaidNode(mainEntities[1][2], mainEntities[1][1], 0, 0)>>
      ELSE <<>>)
       \o (IF Len(abstractEntities) = 0 THEN <<>>
           ELSE layoutLeftColumns(abstractEntities))
       \o (IF Len(relatedEntities) > 0
           THEN layoutRightGrid(sortByCount(relatedEntities, edges))
           ELSE <<>>)

\* Math.sign(d), and for d = 0 the sign the code draws from the parity of
\* an index: dx === 0 ? (j % 2 === 0 ? 1 : -1) : Math.sign(dx)
pushSign(d, k) ==
  IF NumIsZero(d) THEN (IF k % 2 = 0 THEN 1 ELSE 0 - 1)
  ELSE IF NumIsNeg(d) THEN 0 - 1 ELSE 1

\* sign * push for a sign of 1 or -1
NumSigned(sign, push) == IF sign = 1 THEN push ELSE NumNeg(push)

\* const pushX = (minDx - Math.abs(dx)) / 2 with the sign of dx
pushStep(d, minD, k) ==
  NumSigned(pushSign(d, k), NumHalf(NumSub(Num(minD), NumAbs(d))))

\* a.position.x -= ..., a.position.y -= ...
movedBack(a, stepX, stepY) ==
  [a EXCEPT !.x = NumSub(a.x, stepX), !.y = NumSub(a.y, stepY)]

\* b.position.x += ..., b.position.y += ...
movedOn(b, stepX, stepY) ==
  [b EXCEPT !.x = NumAdd(b.x, stepX), !.y = NumAdd(b.y, stepY)]

\* both nodes of the pair move, whatever their kind
movePair_MoveBoth(ns, i, j, a, b, movedA, movedB) ==
  [ns EXCEPT ![i + 1] = movedA, ![j + 1] = movedB]

\* if (aAnchored && !bAnchored) { b moves } else if (!aAnchored &&
\* bAnchored) { a moves } else { both move }
movePair(ns, i, j, a, b, movedA, movedB) ==
  IF isAnchored(a) /\ ~isAnchored(b) THEN [ns EXCEPT ![j + 1] = movedB]
  ELSE IF ~isAnchored(a) /\ isAnchored(b) THEN [ns EXCEPT ![i + 1] = movedA]
  ELSE [ns EXCEPT ![i + 1] = movedA, ![j + 1] = movedB]

pushApart_MoveBoth(ns, i, j, a, b, stepX, stepY) ==
  movePair_MoveBoth(ns, i, j, a, b, movedBack(a, stepX, stepY),
                    movedOn(b, stepX, stepY))

\* the pair pushed apart by pushX * signX and pushY * signY
pushApart(ns, i, j, a, b, stepX, stepY) ==
  movePair(ns, i, j, a, b, movedBack(a, stepX, stepY),
           movedOn(b, stepX, stepY))

collideBy_MoveBoth(ns, i, j, a, b, dx, dy, minDx, minDy) ==
  IF NumLessInt(NumAbs(dx), minDx) /\ NumLessInt(NumAbs(dy), minDy)
  THEN [moved |-> TRUE,
        nodes |-> pushApart_MoveBoth(ns, i, j, a, b, pushStep(dx, minDx, j),
                                     pushStep(dy, minDy, i))]
  ELSE [moved |-> FALSE, nodes |-> ns]

\* if (overlapX && overlapY) { moved = true; ... } for the nodes a and b at
\* the distances dx and dy
collideBy(ns, i, j, a, b, dx, dy, minDx, minDy) ==
  IF NumLessInt(NumAbs(dx), minDx) /\ NumLessInt(NumAbs(dy), minDy)
  THEN [moved |-> TRUE,
        nodes |-> pushApart(ns, i, j, a, b, pushStep(dx, minDx, j),
                            pushStep(dy, minDy, i))]
  ELSE [moved |-> FALSE, nodes |-> ns]

collideNodes_MoveBoth(ns, i, j, a, b, padding) ==
  collideBy_MoveBoth(ns, i, j, a, b, NumSub(b.x, a.x), NumSub(b.y, a.y),
                     (getSizeW(a) + getSizeW(b)) \div 2 + padding,
                     (getSizeH(a) + getSizeH(b)) \div 2 + padding)

\* const dx = b.position.x - a.position.x, dy likewise, and
\* const minDx = (aSize.w + bSize.w) / 2 + padding, minDy likewise
collideNodes(ns, i, j, a, b, padding) ==
  collideBy(ns, i, j, a, b, NumSub(b.x, a.x), NumSub(b.y, a.y),
            (getSizeW(a) + getSizeW(b)) \div 2 + padding,
            (getSizeH(a) + getSizeH(b)) \div 2 + padding)

\* a pair step that moves both nodes of every overlapping pair
collidePair_MoveBoth(ns, i, j, padding) ==
  collideNodes_MoveBoth(ns, i, j, ns[i + 1], ns[j + 1], padding)

\* the body of the two inner loops of resolveCollisions for the pair (i, j),
\* indices from 0 as in the code; ns are the nodes, 1-based
collidePair(ns, i, j, padding) ==
  collideNodes(ns, i, j, ns[i + 1], ns[j + 1], padding)

RECURSIVE collideRow(_, _, _, _, _)
\* for (let j = i + 1; j < nodes.length; j++) { ... }, from j on
collideRow(ns, i, j, padding, movedSoFar) ==
  IF j >= Len(ns) THEN [moved |-> movedSoFar, nodes |-> ns]
  ELSE LET r == collidePair(ns, i, j, padding)
       IN collideRow(r.nodes, i, j + 1, padding, movedSoFar \/ r.moved)

RECURSIVE collideRows(_, _, _, _)
\* for (let i = 0; i < nodes.length; i++) { ... }, from i on
collideRows(ns, i, padding, movedSoFar) ==
  IF i >= Len(ns) THEN [moved |-> movedSoFar, nodes |-> ns]
  ELSE LET r == collideRow(ns, i, i + 1, padding, movedSoFar)
       IN collideRows(r.nodes, i + 1, padding, r.moved)

\* one iteration of the loop "for (let iter = 0; iter < iterations; iter++)"
collisionPass(ns, padding) == collideRows(ns, 0, padding, FALSE)

(***************************************************************************)
(* Inputs: the schemas, indexes and options buildGraph is applied to       *)
(***************************************************************************)
P(k, v) == [key |-> k, value |-> v]
Rel(g, e) == [GroupType |-> g, EntityType |-> e]

sString == <<"s","t","r","i","n","g">>
sObject == <<"o","b","j","e","c","t">>
sArray == <<"a","r","r","a","y">>
gMasterData == <<"m","a","s","t","e","r","-","d","a","t","a">>

\* the sample schema of the repository's test of buildGraph
WellSchema ==
  [Obj EXCEPT
     !.sid = <<"o","s","d","u",":","w","k","s",":","m","a","s","t","e","r","-","d","a","t","a","-","-","W","e","l","l",":","1",".","0",".","0">>,
     !.title = <<"W","e","l","l">>,
     !.type = sObject,
     !.properties =
       <<P(<<"i","d">>, [Obj EXCEPT !.type = sString, !.description = <<"I","d","e","n","t","i","f","i","e","r">>]),
         P(<<"n","a","m","e">>, [Obj EXCEPT !.type = sString]),
         P(<<"r","i","g","T","y","p","e">>,
           [Obj EXCEPT !.type = sObject,
              !.properties = <<P(<<"R","i","g","T","y","p","e","I","D">>, [Obj EXCEPT !.ref = <<".",".","/","r","e","f","e","r","e","n","c","e","-","d","a","t","a","/","R","i","g","T","y","p","e",".","1",".","j","s","o","n">>])>>])>>,
     !.required = <<<<"i","d">>, <<"n","a","m","e">>>>]

\* a schema with a $ref to an abstract schema by a relative path
ExampleSchema ==
  [Obj EXCEPT
     !.sid = <<"o","s","d","u",":","w","k","s",":","m","a","s","t","e","r","-","d","a","t","a","-","-","E","x","a","m","p","l","e",":","1",".","0",".","0">>, !.title = <<"E","x","a","m","p","l","e">>, !.type = sObject,
     !.properties = <<P(<<"a","c","l">>, [Obj EXCEPT !.ref = <<".",".","/","a","b","s","t","r","a","c","t","/","F","o","o",".","j","s","o","n">>])>>]

\* required keys at depth 1 and the same keys nested, under properties, allOf
\* and items; one key holds a dot
NestedSchema ==
  [Obj EXCEPT
     !.title = <<"N","e","s","t","e","d">>, !.type = sObject,
     !.properties =
       <<P(<<"i","d">>, [Obj EXCEPT !.typeArr = <<sString, <<"n","u","l","l">>>>]),
         P(<<"n","e","s","t","e","d">>,
           [Obj EXCEPT !.type = sObject, !.required = <<<<"X">>>>,
              !.properties = <<P(<<"X">>, [Obj EXCEPT !.type = sString]),
                               P(<<"i","d">>, [Obj EXCEPT !.type = sString])>>]),
         P(<<"a",".","b">>, [Obj EXCEPT !.type = sString]),
         P(<<"l","i","s","t">>,
           [Obj EXCEPT !.type = sArray,
              !.items = <<[Obj EXCEPT
                            !.properties = <<P(<<"n","a","m","e">>, [Obj EXCEPT !.type = sString])>>]>>])>>,
     !.allOf = <<[Obj EXCEPT
                   !.properties = <<P(<<"n","a","m","e">>, [Obj EXCEPT !.description = <<"I","d","e","n","t","i","f","i","e","r">>]),
                                    P(<<"X">>, Obj)>>]>>,
     !.required = <<<<"i","d">>, <<"n","a","m","e">>, <<"X">>, <<"a",".","b">>>>]

\* property values that are not schema objects: a number, a string, an array
LeafSchema ==
  [Obj EXCEPT
     !.title = <<"L","e","a","f">>,
     !.properties = <<P(<<"n">>, JNumber), P(<<"s">>, JString), P(<<"a">>, JArray),
                      P(<<"o">>, Obj)>>,
     !.required = <<<<"n">>>>]

\* a property value that is null, below a well-formed property
NullPropSchema ==
  [Obj EXCEPT
     !.title = <<"N","u","l","l","P","r","o","p">>,
     !.properties =
       <<P(<<"i","d">>, [Obj EXCEPT !.type = sString]),
         P(<<"o">>, [Obj EXCEPT !.properties = <<P(<<"x">>, Null)>>])>>]

\* two distinct $ref strings that differ in a character normalizeId replaces,
\* and one $ref that occurs twice
RefsSchema ==
  [Obj EXCEPT
     !.title = <<"R","e","f","s">>,
     !.properties =
       <<P(<<"a">>, [Obj EXCEPT !.ref = <<"a","b","s","t","r","a","c","t","/","B","a","r",".","j","s","o","n">>]),
         P(<<"b">>, [Obj EXCEPT !.ref = <<"a","b","s","t","r","a","c","t","_","B","a","r",".","j","s","o","n">>]),
         P(<<"c">>, [Obj EXCEPT !.ref = <<"a","b","s","t","r","a","c","t","/","B","a","r",".","j","s","o","n">>])>>,
     !.anyOf = <<[Obj EXCEPT !.ref = <<".",".","/","r","e","f","e","r","e","n","c","e","-","d","a","t","a","/","R","i","g","T","y","p","e",".","1",".","j","s","o","n">>]>>]

\* one $ref that occurs twice and a second one
TwoRefsSchema ==
  [Obj EXCEPT
     !.title = <<"R","e","f","s">>,
     !.ref = <<".",".","/","a","b","s","t","r","a","c","t","/","F","o","o",".","j","s","o","n">>,
     !.properties =
       <<P(<<"a">>, [Obj EXCEPT !.ref = <<".",".","/","r","e","f","e","r","e","n","c","e","-","d","a","t","a","/","R","i","g","T","y","p","e",".","1",".","j","s","o","n">>]),
         P(<<"b">>, [Obj EXCEPT !.oneOf = <<[Obj EXCEPT !.ref = <<".",".","/","a","b","s","t","r","a","c","t","/","F","o","o",".","j","s","o","n">>]>>])>>]

\* the property names and entity names of the relationship schemas
PropNames ==
  {<<"F","a","c","i","l","i","t","y","C","o","n","n","e","c","t","i","o","n">>, <<"W","e","l","l","I","D">>, <<"C","o","n","n","e","c","t","e","d","C","o","m","p","o","n","e","n","t">>,
   <<"P","a","r","e","n","t","C","o","n","n","e","c","t","i","o","n">>, <<"A","s","s","e","m","b","l","y","C","o","m","p","o","n","e","n","t","s">>, <<"P","a","r","e","n","t","W","e","l","l">>}
EntityNames == {<<"F","a","c","i","l","i","t","y">>, <<"P","i","p","e","C","o","n","n","e","c","t","i","o","n">>, <<"C","o","m","p","o","n","e","n","t">>}

\* one property that carries one x-osdu-relationship
RelSchema(prop, entity) ==
  [Obj EXCEPT
     !.title = <<"R","e","l">>, !.type = sObject,
     !.properties =
       <<P(<<"i","d">>, [Obj EXCEPT !.type = sString]),
         P(prop, [Obj EXCEPT !.type = sString, !.rel = <<Rel(gMasterData, entity)>>])>>]

\* schemas whose $id, which App takes as the id of the model, is the id
\* buildGraph gives a node of theirs: that of the related entity of their
\* relationship, and that of the abstract schema of their $ref
EntityIdSchema ==
  [Obj EXCEPT
     !.sid = <<"e","n","t","i","t","y",":",":","W","e","l","l">>, !.title = <<"E","n","t","i","t","y","I","d">>, !.type = sObject,
     !.properties =
       <<P(<<"W","e","l","l","I","D">>, [Obj EXCEPT !.type = sString,
                                  !.rel = <<Rel(gMasterData, <<"W","e","l","l">>)>>])>>]

RefIdSchema ==
  [Obj EXCEPT
     !.sid = <<"r","e","f",":",":","x",".","j","s","o","n">>, !.title = <<"R","e","f","I","d">>, !.type = sObject,
     !.properties = <<P(<<"b","a","s","e">>, [Obj EXCEPT !.ref = <<"x",".","j","s","o","n">>])>>]

\* several relationships to one target: by two properties, twice by one
\* property, by an array property and its items, by property and entity
\* names that hold "::", to entity names that normalizeId maps to one id, and
\* one entry without EntityType
MultiSchema ==
  [Obj EXCEPT
     !.title = <<"M","u","l","t","i">>, !.type = sObject,
     !.rel = <<Rel(gMasterData, <<"W","e","l","l">>)>>,
     !.properties =
       <<P(<<"W","e","l","l","I","D">>, [Obj EXCEPT !.rel = <<Rel(gMasterData, <<"W","e","l","l">>),
                                             Rel(gMasterData, <<"W","e","l","l">>),
                                             Rel(gMasterData, Absent)>>]),
         P(<<"P","a","r","e","n","t","W","e","l","l">>, [Obj EXCEPT !.rel = <<Rel(Absent, <<"W","e","l","l">>)>>]),
         P(<<"N","o","d","e","s">>,
           [Obj EXCEPT !.type = sArray,
              !.items = <<[Obj EXCEPT !.rel = <<Rel(gMasterData, <<"F","a","c","i","l","i","t","y">>)>>]>>]),
         P(<<"x",":",":","y">>, [Obj EXCEPT !.rel = <<Rel(gMasterData, <<"A">>)>>]),
         P(<<"y">>, [Obj EXCEPT !.rel = <<Rel(gMasterData, <<"A",":",":","x">>),
                                        Rel(gMasterData, <<"A","_","B">>),
                                        Rel(gMasterData, <<"A"," ","B">>)>>]),
         P(<<"a","c","l">>, [Obj EXCEPT !.ref = <<".",".","/","a","b","s","t","r","a","c","t","/","F","o","o",".","j","s","o","n">>])>>]

\* one array property whose items carry the relationships
ArrayRelSchema(prop, entities) ==
  [Obj EXCEPT
     !.title = <<"A","r","r">>, !.type = sObject,
     !.properties =
       <<P(<<"i","d">>, [Obj EXCEPT !.type = sString]),
         P(prop, [Obj EXCEPT !.type = sArray,
                    !.items = <<[Obj EXCEPT !.type = sString,
                                   !.rel = [i \in 1..Len(entities) |->
                                              Rel(gMasterData, entities[i])]]>>])>>]

ArraySchemas ==
  {ArrayRelSchema(<<"P","i","p","e","C","o","n","n","e","c","t","i","o","n","s">>, <<<<"F","a","c","i","l","i","t","y">>>>),
   ArrayRelSchema(<<"S","u","b","C","o","m","p","o","n","e","n","t","s">>, <<<<"C","o","m","p","o","n","e","n","t">>, <<"F","a","c","i","l","i","t","y">>>>),
   ArrayRelSchema(<<"W","e","l","l","s">>, <<<<"W","e","l","l">>>>)}

\* relationships below allOf, anyOf, oneOf and items of a property, and at
\* the root
ComposedRelSchema ==
  [Obj EXCEPT
     !.title = <<"C","o","m","p">>, !.type = sObject,
     !.rel = <<Rel(gMasterData, <<"W","e","l","l">>)>>,
     !.properties =
       <<P(<<"a">>,
           [Obj EXCEPT
              !.allOf = <<[Obj EXCEPT !.rel = <<Rel(gMasterData, <<"W","e","l","l">>)>>]>>,
              !.anyOf = <<[Obj EXCEPT !.rel = <<Rel(gMasterData, <<"F","a","c","i","l","i","t","y">>)>>]>>,
              !.oneOf = <<[Obj EXCEPT
                             !.properties =
                               <<P(<<"b">>, [Obj EXCEPT !.rel = <<Rel(gMasterData, <<"C","o","m","p","o","n","e","n","t">>)>>])>>]>>,
              !.items = <<[Obj EXCEPT !.rel = <<Rel(gMasterData, <<"F","a","c","i","l","i","t","y">>)>>]>>])>>]

\* the schemas of the index
FooSchema == [Obj EXCEPT !.sid = <<"X">>, !.title = <<"F","o","o">>]
RigTypeSchema ==
  [Obj EXCEPT
     !.sid = <<"o","s","d","u",":","w","k","s",":","r","e","f","e","r","e","n","c","e","-","d","a","t","a","-","-","R","i","g","T","y","p","e",":","1",".","0",".","0">>, !.title = <<"R","i","g","T","y","p","e">>,
     !.properties = <<P(<<"C","o","d","e">>, [Obj EXCEPT !.type = sString])>>]
FacilitySchema ==
  [Obj EXCEPT
     !.sid = <<"o","s","d","u",":","w","k","s",":","m","a","s","t","e","r","-","d","a","t","a","-","-","F","a","c","i","l","i","t","y",":","1",".","0",".","0">>, !.title = <<"F","a","c","i","l","i","t","y">>,
     !.properties = <<P(<<"i","d">>, [Obj EXCEPT !.type = sString]),
                      P(<<"n","a","m","e">>, [Obj EXCEPT !.type = sString])>>]

\* an index whose abstract schema is stored under its minified file name
MinIndex ==
  <<P(<<"/","d","a","t","a","/","a","b","s","t","r","a","c","t","/","F","o","o",".","m","i","n",".","j","s","o","n">>, FooSchema),
    P(<<"/","d","a","t","a","/","r","e","f","e","r","e","n","c","e","-","d","a","t","a","/","R","i","g","T","y","p","e",".","1",".","j","s","o","n">>, RigTypeSchema),
    P(<<"/","d","a","t","a","/","m","a","s","t","e","r","-","d","a","t","a","/","F","a","c","i","l","i","t","y",".","1",".","0",".","0",".","j","s","o","n">>, FacilitySchema)>>

\* the same index with the abstract schema under the file name of the $ref
PlainIndex ==
  <<P(<<"/","d","a","t","a","/","a","b","s","t","r","a","c","t","/","F","o","o",".","j","s","o","n">>, FooSchema),
    P(<<"/","d","a","t","a","/","r","e","f","e","r","e","n","c","e","-","d","a","t","a","/","R","i","g","T","y","p","e",".","1",".","j","s","o","n">>, RigTypeSchema),
    P(<<"/","d","a","t","a","/","m","a","s","t","e","r","-","d","a","t","a","/","F","a","c","i","l","i","t","y",".","1",".","0",".","0",".","j","s","o","n">>, FacilitySchema)>>

\* an index in which a key that holds the name Facility as a substring comes
\* before the key of the schema whose title is Facility
FacilityEventSchema ==
  [Obj EXCEPT !.sid = <<"o","s","d","u",":","w","k","s",":","F","a","c","i","l","i","t","y","E","v","e","n","t",":","1",".","0",".","0">>, !.title = <<"F","a","c","i","l","i","t","y","E","v","e","n","t">>]
FuzzyFirstIndex ==
  <<P(<<"/","d","a","t","a","/","m","a","s","t","e","r","-","d","a","t","a","/","F","a","c","i","l","i","t","y","E","v","e","n","t",".","1",".","0",".","0",".","j","s","o","n">>, FacilityEventSchema),
    P(<<"/","d","a","t","a","/","m","a","s","t","e","r","-","d","a","t","a","/","F","a","c","i","l","i","t","y",".","1",".","0",".","0",".","j","s","o","n">>, FacilitySchema)>>

\* an index whose Facility schema lies in the reference-data folder while its
\* $id names master-data, and whose Component schema has a category in its
\* $id alone
ComponentSchema ==
  [Obj EXCEPT !.sid = <<"o","s","d","u",":","w","k","s",":","w","o","r","k","-","p","r","o","d","u","c","t","-","c","o","m","p","o","n","e","n","t","-","-","C","o","m","p","o","n","e","n","t",":","1",".","0",".","0">>, !.title = <<"C","o","m","p","o","n","e","n","t">>]
MixedCategoryIndex ==
  <<P(<<"/","d","a","t","a","/","r","e","f","e","r","e","n","c","e","-","d","a","t","a","/","F","a","c","i","l","i","t","y",".","1",".","0",".","0",".","j","s","o","n">>, FacilitySchema),
    P(<<"/","d","a","t","a","/","m","i","s","c","/","C","o","m","p","o","n","e","n","t",".","j","s","o","n">>, ComponentSchema)>>

\* a schema file as the catalog holds it: the schema with a "$schema"
sDraft07 == <<"h","t","t","p",":","/","/","j","s","o","n","-","s","c","h","e","m","a",".","o","r","g","/","d","r","a","f","t","-","0","7","/","s","c","h","e","m","a","#">>
sJsonSchemaOrg == <<"j","s","o","n","-","s","c","h","e","m","a",".","o","r","g">>
Standard(schema) == [schema EXCEPT !.dschema = sDraft07]

\* \d+
isDigits(s) == s # <<>> /\ \A i \in DOMAIN s : s[i] \in Range(DigitChars)

\* the d.d.d of s.match(/:(\d+\.\d+\.\d+)$/), <<>> when there is no match
versionAtEnd(s) ==
  LET parts == split(s, ":")
      last == parts[Len(parts)]
      nums == split(last, ".")
  IN IF /\ Len(parts) >= 2
        /\ Len(nums) = 3
        /\ \A i \in DOMAIN nums : isDigits(nums[i])
     THEN last ELSE <<>>

\* function extractVersion(schema) of scan-schemas.cjs: the d.d.d of an $id
\* that ends in ":d.d.d.json", else the d.d.d of an x-osdu-schema-source that
\* ends in ":d.d.d", else undefined
extractVersion(schema) ==
  LET id == schema.sid
      idMatch == IF endsWith(id, sJson)
                 THEN versionAtEnd(SubSeq(id, 1, Len(id) - Len(sJson)))
                 ELSE <<>>
  IN IF idMatch # <<>> THEN idMatch ELSE versionAtEnd(schema.source)

\* the entries scan-schemas.cjs writes to schema-index.json for a file: one
\* for a schema whose "$schema" is a string that holds json-schema.org, none
\* for any other file
scanEntry(schema, path) ==
  IF Truthy(schema) /\ includes(schema.dschema, sJsonSchemaOrg)
  THEN <<[publicPath |-> path,
          title |-> IF schema.title # <<>> THEN schema.title
                    ELSE <<"U","n","t","i","t","l","e","d">>,
          version |-> extractVersion(schema)]>>
  ELSE <<>>

\* schema && typeof schema === "object" && schema["$schema"] &&
\* schema["$schema"].includes("json-schema.org")
isStandard(schema) ==
  /\ Truthy(schema)
  /\ IsObject(schema)
  /\ schema.dschema # <<>>
  /\ includes(schema.dschema, sJsonSchemaOrg)

\* the SchemaModel loadSchemas builds: id = schema["$id"] || path, title =
\* schema["title"] || schemaInfo.title || id
ModelOf(schema, schemaInfo) ==
  LET path == schemaInfo.publicPath
      id == IF schema.sid # <<>> THEN schema.sid ELSE path
  IN [id |-> id,
      title |-> IF schema.title # <<>> THEN schema.title
                ELSE IF schemaInfo.title # <<>> THEN schemaInfo.title ELSE id,
      schema |-> schema, path |-> path, version |-> schemaInfo.version]

\* the body of the loop of loadSchemas for one file: the models it pushes
loadSchema(schema, schemaInfo) ==
  IF isStandard(schema) THEN <<ModelOf(schema, schemaInfo)>> ELSE <<>>

\* the model of a schema file of the catalog at a path
Loaded(schema, path) ==
  loadSchema(Standard(schema), scanEntry(Standard(schema), path)[1])[1]

\* a model whose schema is null, as a caller of buildGraph can pass it
\* (loadSchemas builds none)
NullModel(path) ==
  [id |-> path, title |-> path, schema |-> Null, path |-> path, version |-> <<>>]

OptsOf(filter, hasIndex, index, erdView) ==
  [filter |-> filter, hasIndex |-> hasIndex, index |-> index, erdView |-> erdView]

CatalogSchemas ==
  {WellSchema, ExampleSchema, NestedSchema, RefsSchema, TwoRefsSchema,
   MultiSchema, Obj, LeafSchema, NullPropSchema, EntityIdSchema, RefIdSchema}
    \cup {RelSchema(p, e) : p \in PropNames, e \in EntityNames}
    \cup ArraySchemas \cup {ComposedRelSchema}

CatalogPath == <<"/","d","a","t","a","/","G","e","n","e","r","a","t","e","d","/","m","a","s","t","e","r","-","d","a","t","a","/","S","c","h","e","m","a",".","j","s","o","n">>

CatalogModels ==
  {Loaded(sch, CatalogPath) : sch \in CatalogSchemas} \cup {NullModel(CatalogPath)}

Filters == {<<>>, <<"i","d">>, <<" ","N","A","M","E"," ">>}

Indexes == {OptsOf(<<>>, FALSE, <<>>, "true"), OptsOf(<<>>, TRUE, <<>>, "true"),
            OptsOf(<<>>, TRUE, MinIndex, "true"),
            OptsOf(<<>>, TRUE, PlainIndex, "true"),
            OptsOf(<<>>, TRUE, FuzzyFirstIndex, "true"),
            OptsOf(<<>>, TRUE, MixedCategoryIndex, "true")}

CatalogOpts ==
  {[ix EXCEPT !.filter = f, !.erdView = v] :
     ix \in Indexes, f \in Filters, v \in {"true", "false", "absent"}}

\* the largest number of nodes of a generated graph
MaxLayoutNodes == 16

\* a schema with a distinct $ref strings and relationships to r distinct
\* entities, whose ERD graph has 1 + a + r nodes
GenSchema(a, r) ==
  [Obj EXCEPT
     !.title = <<"G","e","n">>, !.type = sObject,
     !.properties =
       [i \in 1..a |-> P(<<"p">> \o numToStr(i),
                         [Obj EXCEPT !.ref = <<"r">> \o numToStr(i) \o sJson])]
         \o [j \in 1..r |-> P(<<"q">> \o numToStr(j),
                              [Obj EXCEPT !.rel = <<Rel(gMasterData,
                                                        <<"E">> \o numToStr(j))>>])]]

GenModels ==
  {Loaded(GenSchema(a, r), <<"/","g","e","n">> \o numToStr(a) \o <<"-">> \o numToStr(r)) :
     a \in 0..(MaxLayoutNodes - 1), r \in 0..(MaxLayoutNodes - 1)}

Inputs ==
  {[m |-> m, o |-> o] : m \in CatalogModels, o \in CatalogOpts}
    \cup {[m |-> m, o |-> OptsOf(<<>>, TRUE, <<>>, "true")] :
            m \in {g \in GenModels :
                     1 + Len(g.schema.properties) <= MaxLayoutNodes}}

(***************************************************************************)
(* The program: a schema is selected, buildGraph makes its graph,          *)
(* layoutWithDagre places the nodes and resolveCollisions moves them       *)
(***************************************************************************)
NoGraph == [nodes |-> <<>>, edges |-> <<>>]

Init ==
  /\ \E inp \in Inputs : model = inp.m /\ opts = inp.o
  /\ pc = "start"
  /\ graph = NoGraph
  /\ laid = <<>>
  /\ laidEdges = <<>>
  /\ iter = 0
  /\ moved = FALSE
  /\ heap = <<>>
  /\ stack = <<>>
  /\ history = <<>>
  /\ events = <<>>

\* the call buildGraph(model, opts) of a caller that hands the function its
\* inputs, as the repository's tests do: it returns a graph or it throws.
\* (App calls it with erdView true and only for a model that has a schema.)
setGraph(r) ==
  /\ graph' = r.graph
  /\ pc' = IF r.threw THEN "threw" ELSE "built"

Build ==
  /\ pc = "start"
  /\ setGraph(tryBuildGraph(model, opts))
  /\ UNCHANGED <<model, opts, laid, laidEdges, iter, moved, heap, stack, history,
               events>>

\* const isErdView = nodes.some((n) => n.type === "erd-entity")
isErdView(nodes) == \E i \in DOMAIN nodes : nodes[i].type = "erd-entity"

\* g.setGraph({ rankdir: "TB", nodesep: 80, ranksep: 140, edgesep: 40 })
nodesep == 80
ranksep == 140
DagrePadding == 80

\* dagre.layout(g) is the work of a library that is no part of the
\* repository.  Of its result the model keeps what the options ask of it: a
\* node that an edge from another node enters is one rank below the nodes
\* that no edge enters (the graphs of buildOriginalGraph have edges from the
\* main node alone), the nodes of a rank stand in the order in which setNode
\* met their ids, nodesep apart, and the ranks are ranksep apart.  How dagre
\* aligns a rank with the next is left open between the rows starting at one
\* x and the rows sharing one centre.
DagreAlignments == {"left", "centre"}

\* nodes.forEach(n => g.setNode(n.id, ...)): one node of g for every id
dagreIds(nodes) == uniq([i \in 1..Len(nodes) |-> nodes[i].id])

dagreRank(id, edges) ==
  IF \E e \in DOMAIN edges : edges[e].target = id /\ edges[e].source # id
  THEN 1 ELSE 0

\* the ids of a rank, in the order of setNode
dagreRow(ids, edges, rank) ==
  filterSeq(ids, [i \in 1..Len(ids) |-> dagreRank(ids[i], edges) = rank])

\* g.node(id): the centre dagre gives the node of an id
dagreNode(ids, edges, id, alignment) ==
  LET rank == dagreRank(id, edges)
      row == dagreRow(ids, edges, rank)
      other == dagreRow(ids, edges, 1 - rank)
      k == CHOOSE i \in DOMAIN row : row[i] = id
      widest == IF Len(row) > Len(other) THEN Len(row) ELSE Len(other)
      step == defaultNodeWidth + nodesep
      offset == IF alignment = "left" THEN 0
                ELSE ((widest - Len(row)) * step) \div 2
  IN [x |-> offset + (k - 1) * step + defaultNodeWidth \div 2,
      y |-> rank * (defaultNodeHeight + ranksep) + defaultNodeHeight \div 2]

\* the original layout of layoutWithDagre up to the call of
\* resolveCollisions(laidOutNodes, 80): position = centre - half the size
dagrePlacement(nodes, edges, alignment) ==
  LET ids == dagreIds(nodes)
  IN [i \in 1..Len(nodes) |->
        LET pos == dagreNode(ids, edges, nodes[i].id, alignment)
        IN LaidNode(nodes[i], i, pos.x - defaultNodeWidth \div 2,
                    pos.y - defaultNodeHeight \div 2)]

\* the padding layoutWithDagre hands resolveCollisions: 120 at the end of
\* layoutErdClustered, 80 at the end of the original layout
paddingOf(nodes) == IF isErdView(nodes) THEN ErdPadding ELSE DagrePadding

\* layoutWithDagre up to its call of resolveCollisions: layoutErdClustered
\* for a graph with a node of type erd-entity, the layout of dagre otherwise
Place ==
  /\ pc = "built"
  /\ \E alignment \in DagreAlignments :
       laid' = IF isErdView(graph.nodes)
               THEN erdPlacement(graph.nodes, graph.edges)
               ELSE dagrePlacement(graph.nodes, graph.edges, alignment)
  /\ laidEdges' = graph.edges
  /\ iter' = 0
  /\ moved' = FALSE
  /\ pc' = "resolve"
  /\ UNCHANGED <<model, opts, graph, heap, stack, history,
               events>>

\* one iteration of the outer loop of resolveCollisions; the loop ends when
\* the iteration moved nothing or was the last
Resolve ==
  /\ pc = "resolve"
  /\ iter < Iterations
  /\ LET r == collisionPass(laid, paddingOf(laid))
     IN /\ laid' = r.nodes
        /\ moved' = r.moved
        /\ iter' = iter + 1
        /\ pc' = IF ~r.moved \/ iter + 1 >= Iterations THEN "done" ELSE "resolve"
  /\ UNCHANGED <<model, opts, graph, laidEdges, heap, stack, history,
               events>>

Next == Build \/ Place \/ Resolve

Spec == Init /\ [][Next]_vars

(***************************************************************************)
(* The walk of collectFromSchema (and, with the same recursion, walkForErd *)
(* of extractErdRelationships) on schema objects that live in a heap: a    *)
(* sub-schema is a reference, so that an object can be reached from        *)
(* itself.  The recursion is kept as the stack of its calls.               *)
(***************************************************************************)
\* the depth at which the engine ends a recursion with "RangeError: Maximum
\* call stack size exceeded"
MaxCallDepth == 8

Keywords == {"properties", "allOf", "anyOf", "oneOf", "items"}
\* an object of the heap: under each keyword the references it holds
HeapObj ==
  [properties |-> <<>>, allOf |-> <<>>, anyOf |-> <<>>, oneOf |-> <<>>,
   items |-> <<>>]
\* an object that holds the reference t under the keyword k, none if t = 0
linkTo(k, t) == IF t = 0 THEN HeapObj ELSE [HeapObj EXCEPT ![k] = <<t>>]
\* heaps of three objects: the first holds the second, the second holds
\* nothing, the first, itself or the third; the third holds nothing
Heaps ==
  {<<linkTo(k1, 2), linkTo(k2, t), HeapObj>> :
     k1 \in Keywords, k2 \in Keywords, t \in 0..3}

\* the calls walk(v, ...) and walk(sub, path) of one call of walk, in order:
\* properties, allOf, anyOf, oneOf, items
walkOrder(obj) ==
  obj.properties \o obj.allOf \o obj.anyOf \o obj.oneOf \o obj.items

WalkInit ==
  /\ model = Loaded(Obj, <<"/","w">>)
  /\ opts = OptsOf(<<>>, FALSE, <<>>, "absent")
  /\ pc = "walking"
  /\ graph = NoGraph
  /\ laid = <<>>
  /\ laidEdges = <<>>
  /\ iter = 0
  /\ moved = FALSE
  /\ heap \in Heaps
  /\ stack = <<[obj |-> 1, next |-> 1]>>
  /\ history = <<>>
  /\ events = <<>>

\* the call at the top of the stack calls walk for its next sub-schema; at
\* the depth limit of the engine the call throws and the exception leaves
\* every call
WalkCall ==
  /\ pc = "walking"
  /\ LET top == stack[Len(stack)]
         subs == walkOrder(heap[top.obj])
     IN /\ top.next <= Len(subs)
        /\ IF Len(stack) >= MaxCallDepth
           THEN stack' = <<>> /\ pc' = "overflow"
           ELSE /\ stack' = Append([stack EXCEPT ![Len(stack)].next = top.next + 1],
                                   [obj |-> subs[top.next], next |-> 1])
                /\ pc' = "walking"
  /\ UNCHANGED <<model, opts, graph, laid, laidEdges, iter, moved, heap, history,
               events>>

\* the call at the top of the stack has walked its sub-schemas and returns
WalkReturn ==
  /\ pc = "walking"
  /\ LET top == stack[Len(stack)]
     IN top.next > Len(walkOrder(heap[top.obj]))
  /\ stack' = SubSeq(stack, 1, Len(stack) - 1)
  /\ pc' = IF Len(stack) = 1 THEN "returned" ELSE "walking"
  /\ UNCHANGED <<model, opts, graph, laid, laidEdges, iter, moved, heap, history,
               events>>

WalkNext == WalkCall \/ WalkReturn

WalkSpec == WalkInit /\ [][WalkNext]_vars

(***************************************************************************)
(* App: the selected model and the navigation history.  The variable model *)
(* is the state selectedModel, NoModel standing for null.  The clicks of   *)
(* the user are the input: events is the sequence of those still to come,  *)
(* and every handler runs when its click is the next.                      *)
(***************************************************************************)
\* the longest sequence of clicks
MaxEvents == 4

NoModel == [id |-> <<>>, title |-> <<>>, schema |-> Null, path |-> <<>>, version |-> <<>>]

\* the state models: the schemas loaded, two of them from two files of one
\* schema (one id, two paths)
NavModels ==
  <<Loaded(FacilitySchema, <<"/","d","a","t","a","/","m","a","s","t","e","r","-","d","a","t","a","/","F","a","c","i","l","i","t","y",".","1",".","0",".","0",".","j","s","o","n">>),
    Loaded(FacilityEventSchema, <<"/","d","a","t","a","/","m","a","s","t","e","r","-","d","a","t","a","/","F","a","c","i","l","i","t","y","E","v","e","n","t",".","1",".","0",".","0",".","j","s","o","n">>),
    Loaded(RigTypeSchema, <<"/","d","a","t","a","/","r","e","f","e","r","e","n","c","e","-","d","a","t","a","/","R","i","g","T","y","p","e",".","1",".","j","s","o","n">>),
    Loaded(FacilitySchema, <<"/","d","a","t","a","/","m","a","s","t","e","r","-","d","a","t","a","/","F","a","c","i","l","i","t","y",".","1",".","1",".","0",".","j","s","o","n">>)>>

\* what a node of the graph hands to onSchemaSelect, which is never empty: an
\* id, a part of an id, a title, a file path, or a string that matches no
\* model
NavKeys ==
  {<<"o","s","d","u",":","w","k","s",":","m","a","s","t","e","r","-","d","a","t","a","-","-","F","a","c","i","l","i","t","y",":","1",".","0",".","0">>, <<"F","a","c","i","l","i","t","y">>,
   <<"F","a","c","i","l","i","t","y","E","v","e","n","t">>, <<"r","i","g","t","y","p","e">>,
   <<"/","d","a","t","a","/","m","a","s","t","e","r","-","d","a","t","a","/","F","a","c","i","l","i","t","y",".","1",".","1",".","0",".","j","s","o","n">>,
   <<"N","o","t","h","i","n","g">>}

\* const targetSchema = models.find(...): the index of the model, or 0
findTarget(models, schemaId) ==
  LET key == schemaId
      keyLower == toLowerCase(key)
      parts == split(key, "/")
      lastSeg == IF parts[Len(parts)] # <<>> THEN parts[Len(parts)] ELSE key
  IN findFirst([i \in 1..Len(models) |->
       LET idLower == toLowerCase(models[i].id)
           titleLower == toLowerCase(models[i].title)
           pathLower == toLowerCase(models[i].path)
       IN \/ models[i].id = key
          \/ includes(idLower, keyLower)
          \/ includes(titleLower, keyLower)
          \/ pathLower = keyLower
          \/ endsWith(pathLower, toLowerCase(lastSeg))])

\* a navigation that pushes the selected model whatever the target is
schemaSelect_AlwaysPush(models, selectedModel, h, schemaId) ==
  LET t == findTarget(models, schemaId)
  IN IF t = 0 THEN [history |-> h, selectedModel |-> selectedModel]
     ELSE [history |-> IF selectedModel # NoModel THEN Append(h, selectedModel) ELSE h,
           selectedModel |-> models[t]]

\* const handleSchemaSelect = (schemaId) => { ... }: the states history and
\* selectedModel after it
schemaSelect(models, selectedModel, h, schemaId) ==
  LET t == findTarget(models, schemaId)
  IN IF t = 0 THEN [history |-> h, selectedModel |-> selectedModel]
     ELSE LET targetSchema == models[t]
              isDifferent == \/ selectedModel = NoModel
                             \/ selectedModel.id # targetSchema.id
                             \/ selectedModel.path # targetSchema.path
          IN [history |-> IF isDifferent /\ selectedModel # NoModel
                          THEN Append(h, selectedModel) ELSE h,
              selectedModel |-> IF isDifferent THEN targetSchema ELSE selectedModel]

\* a click: the handler it calls, with the index or the key handed to it
Event(handler, index, key) == [handler |-> handler, index |-> index, key |-> key]

\* the clicks: on an entry of the dropdown, on a node of the graph (the key
\* is what the node hands to onSchemaSelect), on Back, on an entry of the
\* breadcrumb trail or an index beside it, and on Clear
Events ==
  {Event("handleModelSelect", i, <<>>) : i \in DOMAIN NavModels}
    \cup {Event("handleSchemaSelect", 0, key) : key \in NavKeys}
    \cup {Event("handleBack", 0, <<>>)}
    \cup {Event("handleBreadcrumbJump", index, <<>>) :
            index \in (0 - 1)..(MaxEvents - 1)}
    \cup {Event("clear", 0, <<>>)}

\* the click that is next, of the given handler
Clicked(handler) == events # <<>> /\ Head(events).handler = handler

NavInit ==
  /\ model = NoModel
  /\ opts = OptsOf(<<>>, FALSE, <<>>, "absent")
  /\ pc = "idle"
  /\ graph = NoGraph
  /\ laid = <<>>
  /\ laidEdges = <<>>
  /\ iter = 0
  /\ moved = FALSE
  /\ heap = <<>>
  /\ stack = <<>>
  /\ history = <<>>
  /\ events \in UNION {[1..n -> Events] : n \in 0..MaxEvents}

\* const handleModelSelect = (model) => { setHistory([]); setSelectedModel(model) ... }
handleModelSelect ==
  /\ Clicked("handleModelSelect")
  /\ model' = NavModels[Head(events).index]
  /\ history' = <<>>
  /\ pc' = "handleModelSelect"
  /\ events' = Tail(events)
  /\ UNCHANGED <<opts, graph, laid, laidEdges, iter, moved, heap, stack>>

\* const handleSchemaSelect = (schemaId) => { ... }
handleSchemaSelect ==
  /\ Clicked("handleSchemaSelect")
  /\ LET r == schemaSelect(NavModels, model, history, Head(events).key)
     IN /\ history' = r.history
        /\ model' = r.selectedModel
  /\ pc' = "handleSchemaSelect"
  /\ events' = Tail(events)
  /\ UNCHANGED <<opts, graph, laid, laidEdges, iter, moved, heap, stack>>

\* const handleBack = () => { setHistory((h) => { ... }) }
handleBack ==
  /\ Clicked("handleBack")
  /\ IF Len(history) = 0
     THEN UNCHANGED <<history, model>>
     ELSE /\ model' = history[Len(history)]
          /\ history' = SubSeq(history, 1, Len(history) - 1)
  /\ pc' = "handleBack"
  /\ events' = Tail(events)
  /\ UNCHANGED <<opts, graph, laid, laidEdges, iter, moved, heap, stack>>

\* function handleBreadcrumbJump(index), index counted from 0
handleBreadcrumbJump ==
  /\ Clicked("handleBreadcrumbJump")
  /\ LET index == Head(events).index
     IN IF index < 0 \/ index >= Len(history)
        THEN UNCHANGED <<history, model>>
        ELSE /\ model' = history[index + 1]
             /\ history' = SubSeq(history, 1, index)
  /\ pc' = "handleBreadcrumbJump"
  /\ events' = Tail(events)
  /\ UNCHANGED <<opts, graph, laid, laidEdges, iter, moved, heap, stack>>

\* the Clear button, rendered while a model is selected
clearSelection ==
  /\ Clicked("clear")
  /\ model # NoModel
  /\ model' = NoModel
  /\ history' = <<>>
  /\ pc' = "clear"
  /\ events' = Tail(events)
  /\ UNCHANGED <<opts, graph, laid, laidEdges, iter, moved, heap, stack>>

NavNext ==
  \/ handleModelSelect
  \/ handleSchemaSelect
  \/ handleBack
  \/ handleBreadcrumbJump
  \/ clearSelection

NavSpec == NavInit /\ [][NavNext]_vars

(***************************************************************************)
(* Properties                                                              *)
(***************************************************************************)
Built == pc \notin {"start", "threw"}
ErdMode == erdViewOf(opts)
Nodes == graph.nodes
Edges == graph.edges
NodeIds == {Nodes[i].id : i \in DOMAIN Nodes}
MainId == mainIdOf(model)
NodesOfKind(t) == {i \in DOMAIN Nodes : Nodes[i].nodeType = t}
\* the edges of a $ref: data.type is "inheritance" in the ERD view and "ref"
\* in the original view
IsRefEdge(e) == e.type \in {"inheritance", "ref"}
\* the edges of a relationship in the ERD view
IsErdEdge(e) == e.type \in {"erd-relationship", "connectable"}
RootRequired == IF IsObject(model.schema) THEN model.schema.required ELSE <<>>
SchemaRefs == uniq(collectFromSchema(model.schema).refs)
SchemaErdRels == extractErdRelationships(model.schema)

\* C1: the ids of the nodes of every graph buildGraph returns are pairwise
\* distinct, in both views, also when two $ref strings or entity names
\* differ only in characters that normalizeId replaces
C1_NodeIdsDistinct ==
  Built => \A i, j \in DOMAIN Nodes : i # j => Nodes[i].id # Nodes[j].id

\* C2: every edge of a returned graph, in both views, has a source and a
\* target that are ids of nodes of the returned node list
C2_EdgesHaveEndpoints ==
  Built => \A e \in DOMAIN Edges :
             Edges[e].source \in NodeIds /\ Edges[e].target \in NodeIds

\* a graph of the ERD view with relationship edges and a $ref edge
C2_Witness ==
  /\ pc = "built"
  /\ \E e \in DOMAIN Edges : Edges[e].type = "connectable"
  /\ \E e \in DOMAIN Edges : Edges[e].type = "erd-relationship"
  /\ \E e \in DOMAIN Edges : Edges[e].type = "inheritance"

\* C3: for any input, erdView true, false or absent, exactly one node of the
\* returned graph has data.nodeType equal to "entity"
C3_ExactlyOneEntity ==
  Built => Cardinality(NodesOfKind("entity")) = 1

\* the relationship records that name a target, in the order of the list
NamedErdRels ==
  LET rels == SchemaErdRels
  IN filterSeq(rels, [i \in 1..Len(rels) |-> rels[i].targetEntity # <<>>])
ErdEdgesOut == filterSeq(Edges, [e \in 1..Len(Edges) |-> IsErdEdge(Edges[e])])

\* C5: in the ERD view every relationship record with a non-empty
\* targetEntity has its own edge from the main entity, all edge ids of the
\* graph are pairwise distinct, and repeated relationships get the suffixes
\* #2, #3, ... in the order of the relationship list
C5_EdgePerRelationshipDistinctIds ==
  (Built /\ ErdMode) =>
    /\ Len(ErdEdgesOut) = Len(NamedErdRels)
    /\ \A k \in DOMAIN ErdEdgesOut :
         LET rel == NamedErdRels[k]
             base == erdBaseId(MainId, rel)
             occ == Cardinality({j \in 1..k :
                                   erdBaseId(MainId, NamedErdRels[j]) = base})
         IN /\ ErdEdgesOut[k].source = MainId
            /\ ErdEdgesOut[k].target = normalizeId(sEntityPrefix \o rel.targetEntity)
            /\ ErdEdgesOut[k].sourceProperty = rel.sourceProperty
            /\ ErdEdgesOut[k].id =
                 IF occ = 1 THEN base ELSE base \o <<"#">> \o numToStr(occ)
    /\ \A e, f \in DOMAIN Edges : e # f => Edges[e].id # Edges[f].id

MainProps == Nodes[1].properties

\* the keys of the top-level properties: those of the properties maps the
\* walk meets with an empty path
TopLevelKeys ==
  LET calls == walkCalls(model.schema, <<>>).calls
  IN UNION {{calls[c].obj.properties[i].key : i \in DOMAIN calls[c].obj.properties} :
              c \in {d \in DOMAIN calls : calls[d].path = <<>> /\ IsObject(calls[d].obj)}}

\* C6: an entry of the main entity's property list is marked required
\* exactly when it is the entry of a top-level property whose key is in the
\* root schema's required list; an entry of a nested property is never
\* marked required
C6_RequiredExactlyTopLevel ==
  Built =>
    \A i \in DOMAIN MainProps :
      /\ MainProps[i].required <=>
           (MainProps[i].name \in TopLevelKeys
              /\ MainProps[i].name \in Range(RootRequired))
      /\ MainProps[i].name \notin TopLevelKeys => ~MainProps[i].required

\* the file name <Name>.min.json of a $ref that ends in <Name>.json
minFileName(r) ==
  LET last == split(r, "/")[Len(split(r, "/"))]
  IN SubSeq(last, 1, Len(last) - Len(sJson)) \o <<".","m","i","n">> \o sJson

\* C7: a $ref that is a relative path ending in <Name>.json is resolved
\* against an index whose key ends in <Name>.min.json: there is exactly one
\* abstract node, it carries the indexed schema, and exactly one ref edge
\* goes from the main entity to it
C7_RefResolvesToMinJson ==
  (Built /\ ErdMode /\ opts.hasIndex /\ Len(SchemaRefs) = 1) =>
    \A k \in DOMAIN opts.index :
      LET r == SchemaRefs[1]
      IN (endsWith(r, sJson) /\ endsWith(opts.index[k].key, <<"/">> \o minFileName(r)))
         => /\ Cardinality(NodesOfKind("abstract")) = 1
            /\ \A n \in NodesOfKind("abstract") :
                 /\ IsObject(Nodes[n].schema)
                 /\ Nodes[n].schema.sid = opts.index[k].value.sid
                 /\ Cardinality({e \in DOMAIN Edges :
                                   /\ IsRefEdge(Edges[e])
                                   /\ Edges[e].source = MainId
                                   /\ Edges[e].target = Nodes[n].id}) = 1

\* the classification by first match
firstMatchType(propertyName, targetEntity) ==
  IF isConnectionHit(propertyName, targetEntity) THEN "connects to"
  ELSE IF isComponentHit(propertyName, targetEntity) THEN "contains"
  ELSE IF isParentHit(propertyName) THEN "part of"
  ELSE "references"

MainErdRels == Nodes[1].erdRelationships

\* C8: the relationship type of a direct hit is the first that matches of
\* "connects to" (with isConnectable), "contains", "part of", "references",
\* and a direct hit is connectable only when it is "connects to".  The
\* records of cardinality one-to-one are direct hits.
C8_FirstMatchClassification ==
  (Built /\ ErdMode) =>
    \A i \in DOMAIN MainErdRels :
      LET rel == MainErdRels[i]
      IN rel.cardinality = "one-to-one" =>
           /\ rel.relationshipType = firstMatchType(rel.sourceProperty, rel.targetEntity)
           /\ rel.isConnectable <=> (rel.relationshipType = "connects to")

\* C9: for a schema without x-osdu-relationship and with k distinct $ref
\* strings the ERD view has 1 + k nodes, one entity and k abstract, and k
\* edges, each a ref edge from the main entity to a different abstract node
C9_OneAbstractNodePerRef ==
  (Built /\ ErdMode
     /\ \A i \in DOMAIN collectFromSchema(model.schema).relations :
          collectFromSchema(model.schema).relations[i].type # "relationship") =>
    LET k == Len(SchemaRefs)
    IN /\ Len(Nodes) = 1 + k
       /\ Cardinality(NodesOfKind("entity")) = 1
       /\ Cardinality(NodesOfKind("abstract")) = k
       /\ Len(Edges) = k
       /\ \A e \in DOMAIN Edges :
            /\ IsRefEdge(Edges[e])
            /\ Edges[e].source = MainId
            /\ \E n \in NodesOfKind("abstract") : Nodes[n].id = Edges[e].target
       /\ \A e, f \in DOMAIN Edges : e # f => Edges[e].target # Edges[f].target

\* the bounding boxes of two laid out nodes overlap in X and in Y
boxesOverlap(a, b) ==
  /\ NumLessInt(NumAbs(NumSub(b.x, a.x)), (getSizeW(a) + getSizeW(b)) \div 2)
  /\ NumLessInt(NumAbs(NumSub(b.y, a.y)), (getSizeH(a) + getSizeH(b)) \div 2)

\* C10: for every ERD graph of at most 30 nodes no two nodes of the layout
\* layoutWithDagre returns have bounding boxes that overlap in X and in Y
C10_NoOverlapUpTo30Nodes ==
  (pc = "done" /\ Len(laid) <= 30) =>
    \A i, j \in DOMAIN laid : i < j => ~boxesOverlap(laid[i], laid[j])

\* C11: for every node list and edge list handed to layoutWithDagre, which
\* are those buildGraph returns, the node list layoutWithDagre returns has
\* exactly the ids of the input, none dropped, added or duplicated, and the
\* edge list it returns is the input's
C11_LayoutKeepsNodesAndEdges ==
  pc \in {"resolve", "done"} =>
    /\ Len(laid) = Len(graph.nodes)
    /\ {laid[i].idx : i \in DOMAIN laid} = DOMAIN graph.nodes
    /\ \A i \in DOMAIN laid : laid[i].id = graph.nodes[laid[i].idx].id
    /\ laidEdges = graph.edges

\* an ERD layout returned for a graph with an entity, one related entity
\* and abstract nodes, the nodes in another order than the input's
C11_Witness ==
  /\ pc = "done"
  /\ ErdMode
  /\ Cardinality(NodesOfKind("related-entity")) = 1
  /\ NodesOfKind("abstract") # {}
  /\ Len(laidEdges) >= 2
  /\ \E i \in DOMAIN laid : laid[i].idx # i

\* the graph of the same model and options without the filter
UnfilteredGraph == buildGraph(model, [opts EXCEPT !.filter = <<>>])

\* C12: the filter never removes graph nodes: in both views the set of
\* node ids buildGraph returns with a filter is the set it returns without
C12_FilterKeepsNodes ==
  Built =>
    NodeIds = {UnfilteredGraph.nodes[i].id : i \in DOMAIN UnfilteredGraph.nodes}

\* C13: buildGraph never throws on a malformed or partially specified
\* schema: a value of a properties map that is null, a number, a string or
\* an array is a leaf of the walk, and buildGraph returns a graph with the
\* main node
C13_NeverThrows ==
  pc # "start" => (pc # "threw" /\ Len(Nodes) >= 1)

\* the keys of the index given in the options, none when no index is given
IndexKeys == IF opts.hasIndex THEN DOMAIN opts.index ELSE {}
RelatedNodes == NodesOfKind("related-entity")
\* the node of the k-th distinct $ref: the nodes of the $refs follow the main
\* node and the related entities
RefNode(k) == Nodes[1 + Cardinality(RelatedNodes) + k]
\* the first relationship record whose target has the id of the node
RelOfNode(n) ==
  SchemaErdRels[CHOOSE i \in DOMAIN SchemaErdRels :
                  /\ SchemaErdRels[i].targetEntity # <<>>
                  /\ normalizeId(sEntityPrefix \o SchemaErdRels[i].targetEntity) = n.id
                  /\ \A j \in 1..(i - 1) :
                       normalizeId(sEntityPrefix \o SchemaErdRels[j].targetEntity) # n.id]
IsGhost(n) == n.properties = <<>> /\ n.filePath = <<>> /\ n.schemaId = <<>>

\* C14: the node of a $ref or of a relationship target that matches no index
\* key (no index, an empty index, no matching key) is still in the graph, with
\* no properties, no filePath and no schemaId; the node of one that is
\* resolved has the matched index key as its filePath
C14_GhostOrResolved ==
  Built =>
    /\ Len(Nodes) >= 1 + Cardinality(RelatedNodes) + Len(SchemaRefs)
    /\ \A k \in DOMAIN SchemaRefs :
         LET n == RefNode(k)
             hits == {i \in IndexKeys : refKeyMatches(opts.index[i].key, SchemaRefs[k])}
         IN /\ n.id = refIdOf(SchemaRefs[k])
            /\ hits = {} => IsGhost(n)
            /\ hits # {} =>
                 n.filePath = opts.index[CHOOSE i \in hits : \A j \in hits : i <= j].key
    /\ \A i \in RelatedNodes :
         LET n == Nodes[i]
             hits == {h \in IndexKeys :
                        entityKeyMatches(opts.index, opts.index[h].key, RelOfNode(n))}
         IN /\ hits = {} => IsGhost(n)
            /\ hits # {} => \E h \in hits : n.filePath = opts.index[h].key

\* a graph with the node of a $ref that no key of the index matches and the
\* node of a $ref that is resolved
C14_Witness ==
  /\ pc = "built"
  /\ opts.hasIndex /\ opts.index # <<>>
  /\ \E k \in DOMAIN SchemaRefs : IsGhost(RefNode(k))
  /\ \E k \in DOMAIN SchemaRefs :
       RefNode(k).filePath # <<>> /\ RefNode(k).properties # <<>>

\* other builds: schemas with other ids and titles that share $refs and
\* relationship targets, in the ERD view with an index and in the original
\* view without
\* a schema that holds the $refs of WellSchema and of ExampleSchema, in this
\* order, and a relationship to Facility
LinkedSchema ==
  [Obj EXCEPT
     !.title = <<"L","i","n","k","e","d">>, !.sid = <<"o","s","d","u",":","L","i","n","k","e","d">>,
     !.properties =
       <<P(<<"r","i","g">>, [Obj EXCEPT !.ref = <<".",".","/","r","e","f","e","r","e","n","c","e","-","d","a","t","a","/","R","i","g","T","y","p","e",".","1",".","j","s","o","n">>]),
         P(<<"a","c","l">>, [Obj EXCEPT !.ref = <<".",".","/","a","b","s","t","r","a","c","t","/","F","o","o",".","j","s","o","n">>]),
         P(<<"F","a","c","i","l","i","t","y","I","D">>,
           [Obj EXCEPT !.rel = <<Rel(gMasterData, <<"F","a","c","i","l","i","t","y">>)>>])>>]

Peers ==
  {[m |-> Loaded(sch, <<"/","p","e","e","r">>), o |-> o] :
     sch \in {WellSchema, TwoRefsSchema, ExampleSchema, MultiSchema, LinkedSchema,
              RelSchema(<<"W","e","l","l","I","D">>, <<"F","a","c","i","l","i","t","y">>)},
     o \in {OptsOf(<<>>, TRUE, PlainIndex, "true"), OptsOf(<<>>, FALSE, <<>>, "false")}}
PeerGraph(p) == buildGraph(p.m, p.o)
PeerRelated(p) ==
  {i \in DOMAIN PeerGraph(p).nodes : PeerGraph(p).nodes[i].nodeType = "related-entity"}
\* of every peer: its id and title, the pairs <<$ref, place, id of its node>>
\* and the pairs <<target entity name, id of its node>>
PeerTable ==
  {LET g == PeerGraph(p)
       refs == uniq(collectFromSchema(p.m.schema).refs)
       nRelated == Cardinality(PeerRelated(p))
   IN [id |-> p.m.id, title |-> p.m.title,
       refIds |-> {<<refs[k], k, g.nodes[1 + nRelated + k].id>> : k \in DOMAIN refs},
       entityIds |-> {<<g.nodes[i].label, g.nodes[i].id>> : i \in PeerRelated(p)}] :
     p \in Peers}

\* C15: node ids are stable across independent builds: the node of a $ref
\* string has the same id in the graphs of any two main schemas that hold
\* it, and so has the related-entity node of a target entity name
C15_IdsStableAcrossBuilds ==
  pc = "built" =>
    \A p \in PeerTable :
      /\ \A k \in DOMAIN SchemaRefs : \A t \in p.refIds :
           SchemaRefs[k] = t[1] => RefNode(k).id = t[3]
      /\ \A i \in RelatedNodes : \A t \in p.entityIds :
           Nodes[i].label = t[1] => Nodes[i].id = t[2]

\* a build whose main schema shares a $ref, at another place, with another
\* main schema and a target entity with yet another
C15_Witness ==
  /\ pc = "built"
  /\ \E p \in PeerTable :
       /\ p.id # model.id /\ p.title # model.title
       /\ \E k \in DOMAIN SchemaRefs : \E t \in p.refIds :
            k # t[2] /\ SchemaRefs[k] = t[1]
  /\ \E p \in PeerTable :
       /\ p.id # model.id /\ p.title # model.title
       /\ \E i \in RelatedNodes : \E t \in p.entityIds : Nodes[i].label = t[1]

\* the title of the schema under a key is the target entity name
titleMatches(h, rel) ==
  /\ IsObject(opts.index[h].value)
  /\ toLowerCase(opts.index[h].value.title) = toLowerCase(rel.targetEntity)
\* the key is the path of a file named after the target entity
pathSuffixMatches(h, rel) ==
  includes(toLowerCase(opts.index[h].key),
           <<"/">> \o toLowerCase(rel.targetEntity) \o <<".">>)
\* the same build with the keys of the index in the opposite order
ReversedIndexGraph ==
  buildGraph(model, [opts EXCEPT !.index = [i \in 1..Len(opts.index) |->
                                              opts.index[Len(opts.index) + 1 - i]]])

\* C16: when several keys of the index match the target of a relationship,
\* the key that resolves the related-entity node is chosen by the
\* precedence exact path suffix > title > $id suffix > fuzzy substring: a key
\* that matches only as a substring is never chosen when the title of
\* another key's schema is the target entity name, and the choice does not
\* depend on the order of the keys
C16_MatchPrecedence ==
  (pc = "built" /\ ErdMode /\ opts.hasIndex) =>
    \A i \in RelatedNodes :
      LET rel == RelOfNode(Nodes[i])
          chosen == {h \in IndexKeys : opts.index[h].key = Nodes[i].filePath}
      IN /\ (\E h \in IndexKeys : titleMatches(h, rel)) =>
              \E h \in chosen : \/ titleMatches(h, rel)
                                 \/ pathSuffixMatches(h, rel)
         /\ Nodes[i].filePath = ReversedIndexGraph.nodes[i].filePath

\* the type the policy gives a property value: its "type" when that is a
\* string, the elements joined with "|" when it is an array, "$ref:" and the
\* $ref when there is no type, otherwise undefined
policyType(v) ==
  IF v.type # <<>> THEN [k |-> "string", s |-> v.type, a |-> <<>>]
  ELSE IF v.typeArr # NoArray
       THEN [k |-> "string", s |-> join(v.typeArr, <<"|">>), a |-> <<>>]
  ELSE IF v.ref # <<>>
       THEN [k |-> "string", s |-> <<"$","r","e","f",":">> \o v.ref, a |-> <<>>]
       ELSE NoType

\* C17: the recorded type of a property is its "type" when that is a
\* string, the elements joined with "|" when "type" is an array, "$ref:" and
\* the path when there is no type and there is a $ref, otherwise undefined
C17_TypePolicy ==
  (Built /\ IsObject(model.schema) /\ filterOf(opts) = <<>>) =>
    /\ \A i \in DOMAIN model.schema.properties :
         \E e \in DOMAIN MainProps :
           /\ MainProps[e].name = model.schema.properties[i].key
           /\ MainProps[e].type = policyType(model.schema.properties[i].value)
    /\ \A e \in DOMAIN MainProps : MainProps[e].type.k \in {"string", "undefined"}

\* the top-level array properties of the schema whose name holds
\* "connection", "component" or "node" and whose items carry relationships
ArrayProps ==
  IF ~IsObject(model.schema) THEN {}
  ELSE {i \in DOMAIN model.schema.properties :
          LET v == model.schema.properties[i].value
              name == toLowerCase(model.schema.properties[i].key)
          IN /\ v.type = sArray
             /\ v.items # <<>>
             /\ v.items[1].rel # <<>>
             /\ \/ includes(name, sConnection)
                \/ includes(name, sComponent)
                \/ includes(name, sNode)}
\* the number of relationship records with a base id
BaseCount(base) ==
  Cardinality({j \in DOMAIN NamedErdRels : erdBaseId(MainId, NamedErdRels[j]) = base})
EdgeWithId(id) == {e \in DOMAIN Edges : Edges[e].id = id}

\* C18: for an array property whose name holds "connection", "component"
\* or "node" and whose items carry x-osdu-relationship, every entry is
\* recorded twice and both records are kept: the record of the array scan
\* ("contains", "one-to-many", isConnectable) and then the direct hit of the
\* items; the graph has one related-entity node for the target and two edges
\* to it, with the base id and with the base id and "#2"
C18_ArrayItemsRecordedTwice ==
  (Built /\ ErdMode) =>
    \A i \in ArrayProps :
      LET k == model.schema.properties[i].key
          rs == model.schema.properties[i].value.items[1].rel
          n == Len(rs)
      IN /\ MainErdRels = SchemaErdRels
         /\ \E off \in 0..(Len(SchemaErdRels) - 2 * n) :
              \A j \in 1..n :
                /\ SchemaErdRels[off + j] =
                     [sourceProperty |-> k, targetEntity |-> orEmpty(rs[j].EntityType),
                      relationshipType |-> "contains", cardinality |-> "one-to-many",
                      isConnectable |-> TRUE, groupType |-> orEmpty(rs[j].GroupType)]
                /\ SchemaErdRels[off + n + j].sourceProperty = k
                /\ SchemaErdRels[off + n + j].targetEntity = orEmpty(rs[j].EntityType)
                /\ SchemaErdRels[off + n + j].groupType = orEmpty(rs[j].GroupType)
         /\ \A j \in 1..n :
              LET target == normalizeId(sEntityPrefix \o orEmpty(rs[j].EntityType))
                  base == MainId \o <<"-",">","e","r","d","-",">">> \o target
                            \o <<":",":">> \o normalizeId(k)
              IN (orEmpty(rs[j].EntityType) # <<>> /\ BaseCount(base) = 2) =>
                   /\ Cardinality({m \in RelatedNodes : Nodes[m].id = target}) = 1
                   /\ Cardinality(EdgeWithId(base)) = 1
                   /\ Cardinality(EdgeWithId(base \o <<"#","2">>)) = 1
                   /\ \A e \in EdgeWithId(base) \cup EdgeWithId(base \o <<"#","2">>) :
                        Edges[e].source = MainId /\ Edges[e].target = target
                   /\ \A e \in EdgeWithId(base) :
                        /\ Edges[e].relationshipType = "contains"
                        /\ Edges[e].cardinality = "one-to-many"
                        /\ Edges[e].isConnectable

\* a schema with such an array property whose items carry two relationships
C18_Witness ==
  /\ pc = "built"
  /\ ErdMode
  /\ \E i \in ArrayProps :
       /\ Len(model.schema.properties[i].value.items[1].rel) = 2
       /\ Cardinality(RelatedNodes) = 2
       /\ Len(Edges) = 4

\* the calls of the two walks of a schema
GenericCalls(schema) == walkCalls(schema, <<>>).calls
ErdCalls(schema) == walkForErdCalls(schema, <<>>)
\* the records of x-osdu-relationship entries of the generic pass, in order
GenericRels(schema) ==
  LET rels == collectFromSchema(schema).relations
  IN filterSeq(rels, [i \in 1..Len(rels) |-> rels[i].type = "relationship"])
\* what the calls of the generic walk record for x-osdu-relationship
RelsOfCalls(calls) ==
  flatten([c \in 1..Len(calls) |->
             IF IsObject(calls[c].obj)
             THEN [i \in 1..Len(calls[c].obj.rel) |->
                     relEntry(calls[c].obj.rel[i], calls[c].path)]
             ELSE <<>>])
\* what the calls of the ERD walk record: the direct hits, then the hits of
\* the array scan
ErdRelsOfCalls(calls) ==
  flatten([c \in 1..Len(calls) |->
             IF IsObject(calls[c].obj)
             THEN (IF Len(calls[c].path) > 0
                   THEN [i \in 1..Len(calls[c].obj.rel) |->
                           directHit(calls[c].obj, calls[c].obj.rel[i], calls[c].path)]
                   ELSE <<>>)
                    \o arrayItemsScan(calls[c].obj, calls[c].path)
             ELSE <<>>])
\* the two walks of one schema agree
WalksAgree(schema) ==
  LET gc == GenericCalls(schema)
      ec == ErdCalls(schema)
      gr == GenericRels(schema)
      er == extractErdRelationships(schema)
  IN /\ gc = ec
     /\ gr = RelsOfCalls(gc)
     /\ er = ErdRelsOfCalls(ec)
     /\ \A c \in DOMAIN gc :
          (IsObject(gc[c].obj) /\ Len(gc[c].path) >= 1) =>
            \A i \in DOMAIN gc[c].obj.rel :
              LET r == gc[c].obj.rel[i]
                  path == gc[c].path
              IN /\ \E g \in DOMAIN gr : gr[g] = relEntry(r, path)
                 /\ \E e \in DOMAIN er :
                      /\ er[e].sourceProperty = path[Len(path)]
                      /\ er[e].targetEntity = orEmpty(r.EntityType)
                      /\ er[e] = directHit(gc[c].obj, r, path)
\* the schemas a build can select whose walks agree
AgreeingSchemas ==
  {schema \in {inp.m.schema : inp \in Inputs} : WalksAgree(schema)}

\* C19: collectFromSchema and extractErdRelationships traverse identically:
\* for every schema they visit the same sequence of (sub-node, path) pairs,
\* the path growing by the key through properties and unchanged through
\* allOf, anyOf, oneOf and items, and every x-osdu-relationship entry the
\* generic pass records at a path of length 1 or more has a direct hit of
\* the ERD pass with the same last path segment and EntityType
C19_WalksTraverseIdentically ==
  pc # "start" => model.schema \in AgreeingSchemas

\* the distinct non-empty targetEntity names of the ERD relationships
TargetNames ==
  LET rels == NamedErdRels
  IN {rels[i].targetEntity : i \in DOMAIN rels}

\* C20: in the ERD view the related-entity nodes are in one-to-one
\* correspondence with the distinct non-empty targetEntity names of the ERD
\* relationships: every name has exactly one node, however many relationships
\* target it, every related-entity node carries one of the names, and a
\* relationship without EntityType gets no node and no edge
C20_OneNodePerTargetName ==
  (Built /\ ErdMode) =>
    LET names == TargetNames
        relNodes == RelatedNodes
        outEdges == ErdEdgesOut
    IN /\ Cardinality(relNodes) = Cardinality(names)
       /\ \A name \in names :
            Cardinality({i \in relNodes : Nodes[i].label = name}) = 1
       /\ \A i \in relNodes : Nodes[i].label \in names
       /\ Len(outEdges) = Len(NamedErdRels)
       /\ \A e \in DOMAIN outEdges :
            outEdges[e].target # normalizeId(sEntityPrefix)

\* the categories in their order of priority
Categories == <<sMasterData, sReferenceData, sWorkProductComponent>>
catName(c) ==
  IF c = 1 THEN "master-data"
  ELSE IF c = 2 THEN "reference-data" ELSE "work-product-component"
\* the first category that is a substring of one of the strings, letter case
\* ignored, or "undefined"
firstCategoryIn(strings) ==
  LET hits == {c \in DOMAIN Categories :
                 \E str \in strings : includes(toLowerCase(str), Categories[c])}
  IN IF hits = {} THEN "undefined"
     ELSE catName(CHOOSE c \in hits : \A d \in hits : c <= d)

\* C21 as stated: the category of a related-entity node is the first of
\* master-data, reference-data, work-product-component that is a substring of
\* the resolved file path or of the $id, and is undefined when there is none
\* or when the node is unresolved
C21_CategoryFirstInPathOrId ==
  (Built /\ ErdMode) =>
    \A i \in RelatedNodes :
      Nodes[i].category = firstCategoryIn({Nodes[i].filePath, Nodes[i].schemaId})

\* C21 amended: the file path is asked first, in the priority order of the
\* categories, and the $id only when the file path holds no category
C21_CategoryOfPathThenId ==
  (Built /\ ErdMode) =>
    \A i \in RelatedNodes :
      Nodes[i].category =
        IF firstCategoryIn({Nodes[i].filePath}) # "undefined"
        THEN firstCategoryIn({Nodes[i].filePath})
        ELSE firstCategoryIn({Nodes[i].schemaId})

\* a graph with a node whose category comes from the $id because the path
\* holds none, a node whose path and $id name different categories, and an
\* unresolved node
C21_Witness ==
  /\ pc = "built"
  /\ ErdMode
  /\ \E i \in RelatedNodes :
       /\ firstCategoryIn({Nodes[i].filePath}) = "reference-data"
       /\ firstCategoryIn({Nodes[i].schemaId}) = "master-data"
       /\ Nodes[i].category = "reference-data"
  /\ \E i \in RelatedNodes :
       /\ Nodes[i].filePath # <<>>
       /\ firstCategoryIn({Nodes[i].filePath}) = "undefined"
       /\ Nodes[i].category = "work-product-component"
  /\ \E i \in RelatedNodes :
       Nodes[i].filePath = <<>> /\ Nodes[i].category = "undefined"

\* the layout has begun: the nodes are placed
Placed == pc \in {"resolve", "done"}
\* the main entity is in the layout, as its first node
HasAnchor == Placed /\ laid # <<>> /\ isAnchored(laid[1])
\* the nodes that overlap the anchor by the measure of the collision pass
OverlapAnchor ==
  {j \in 1..(Len(laid) - 1) : collidePair(laid, 0, j, paddingOf(laid)).moved}

\* C22: in the ERD layout the main entity is a fixed anchor: it is placed at
\* (0,0) and is at (0,0) after every pass of resolveCollisions and in the
\* layout returned, whatever overlaps it, and the step of a pair that holds
\* the anchor changes the position of the other node alone
C22_AnchorFixed ==
  HasAnchor =>
    /\ NumIsZero(laid[1].x) /\ NumIsZero(laid[1].y)
    /\ \A j \in 2..Len(laid) : ~isAnchored(laid[j])
    /\ \A j \in OverlapAnchor :
         LET after == collidePair(laid, 0, j, paddingOf(laid)).nodes
         IN /\ \A k \in DOMAIN laid : k # j + 1 => after[k] = laid[k]
            /\ after[j + 1] # laid[j + 1]

\* a pass has run and left a node that overlaps the anchor
C22_Witness ==
  /\ HasAnchor
  /\ iter >= 1
  /\ OverlapAnchor # {}

\* the pairs of nodes of the layout that are closer than the separation the
\* collision pass asks for
TooClose ==
  {pr \in (0..(Len(laid) - 1)) \X (0..(Len(laid) - 1)) :
     pr[1] < pr[2] /\ collidePair(laid, pr[1], pr[2], paddingOf(laid)).moved}

\* C23: for ERD graphs of at most 30 nodes resolveCollisions converges within
\* its 8 iterations: the loop ends with an iteration that moved no node, and
\* in the layout returned no two nodes are closer than the padded minimum
\* separation of the pass
C23_ConvergesWithinCap ==
  (pc = "done" /\ isErdView(laid) /\ Len(laid) <= 30) =>
    (~moved /\ TooClose = {})

\* a > 0
NumIsPos(a) == ~NumIsNeg(a) /\ ~NumIsZero(a)

\* C24: in the layout returned for an ERD graph, after resolveCollisions,
\* every abstract node lies left of the anchor (x < 0) and every
\* related-entity node lies right of it (x > 0)
C24_AbstractLeftRelatedRight ==
  pc = "done" =>
    \A i \in DOMAIN laid :
      /\ laid[i].nodeType = "abstract" => NumIsNeg(laid[i].x)
      /\ laid[i].nodeType = "related-entity" => NumIsPos(laid[i].x)

\* the placement of layoutErdClustered, before resolveCollisions has run
InitialPlacement == pc = "resolve" /\ iter = 0
AbstractLaid == {i \in DOMAIN laid : laid[i].nodeType = "abstract"}
\* the nodes of the column at x, and the integer y of each
ColumnAt(x) == {i \in AbstractLaid : laid[i].x = x}
ColumnYs(x) == {laid[i].y.i : i \in ColumnAt(x)}
\* one column, or two columns taken in turn
ColumnsByCount ==
  LET n == Cardinality(AbstractLaid)
      xs == {laid[i].x : i \in AbstractLaid}
  IN /\ (n >= 1 /\ n <= 10) => Cardinality(xs) = 1
     /\ n > 10 =>
          /\ Cardinality(xs) = 2
          /\ \A i \in AbstractLaid :
               (i + 1) \in AbstractLaid => laid[i + 1].x # laid[i].x
\* the rows of every column are verticalSpacing apart
RowsSpaced ==
  \A i \in AbstractLaid :
    LET ys == ColumnYs(laid[i].x)
        top == CHOOSE y \in ys : \A z \in ys : y <= z
    IN /\ Cardinality(ys) = Cardinality(ColumnAt(laid[i].x))
       /\ ys = {top + k * verticalSpacing : k \in 0..(Cardinality(ys) - 1)}
\* every column has as many rows above y = 0 as below, or one more or less
ColumnsCentred ==
  \A i \in AbstractLaid :
    LET ys == ColumnYs(laid[i].x)
        above == Cardinality({y \in ys : y < 0})
        below == Cardinality({y \in ys : y > 0})
    IN above - below \in {0 - 1, 0, 1}

\* C25: layoutLeftColumns places n abstract nodes in one column when n <= 10
\* and in turn in two columns when n > 10; the rows of a column are
\* verticalSpacing apart, and every column is centred on the y = 0 of the
\* anchor: the rows above and the rows below differ in number by one at most
C25_LeftColumnsCentred ==
  InitialPlacement => (ColumnsByCount /\ RowsSpaced /\ ColumnsCentred)

\* the related-entity nodes of the layout in the order of the grid
RelatedLaid ==
  filterSeq(laid, [i \in 1..Len(laid) |-> laid[i].nodeType = "related-entity"])
\* the number of edges of the graph that touch the node
Degree(n) ==
  Cardinality({e \in DOMAIN graph.edges :
                 graph.edges[e].source = n.id \/ graph.edges[e].target = n.id})
\* min(3, ceil(sqrt(n)))
GridColumns(n) ==
  LET root == CHOOSE c \in 0..n : c * c >= n /\ \A d \in 0..n : d * d >= n => c <= d
  IN IF root < 3 THEN root ELSE 3

\* C26: layoutErdClustered places the n related-entity nodes in a grid of
\* min(3, ceil(sqrt(n))) columns, row by row, in the order of descending
\* edge degree: a node of higher degree comes before a node of lower degree,
\* nodes of equal degree keep the order of the input, and every related
\* entity of the input is placed once
C26_GridByDescendingDegree ==
  InitialPlacement =>
    LET grid == RelatedLaid
        n == Len(grid)
        cols == GridColumns(n)
        rows == (n + cols - 1) \div cols
    IN /\ n = Cardinality(NodesOfKind("related-entity"))
       /\ {grid[k].idx : k \in DOMAIN grid} = NodesOfKind("related-entity")
       /\ \A k \in DOMAIN grid :
            /\ grid[k].x = Num(600 + ((k - 1) % cols) * 400)
            /\ grid[k].y = Num((((k - 1) \div cols) - (rows \div 2)) * 220)
       /\ \A k, l \in DOMAIN grid :
            k < l =>
              \/ Degree(grid[k]) > Degree(grid[l])
              \/ Degree(grid[k]) = Degree(grid[l]) /\ grid[k].idx < grid[l].idx

\* a grid of three columns whose order is not the order of the input: a node
\* stands before one of lower degree that the input has earlier
C26_Witness ==
  /\ InitialPlacement
  /\ Len(RelatedLaid) >= 5
  /\ \E k, l \in DOMAIN RelatedLaid :
       /\ k < l
       /\ RelatedLaid[k].idx > RelatedLaid[l].idx
       /\ Degree(RelatedLaid[k]) > Degree(RelatedLaid[l])
  /\ \E k, l \in DOMAIN RelatedLaid :
       /\ k < l
       /\ Degree(RelatedLaid[k]) = Degree(RelatedLaid[l])

\* C27: the walk ends without error on every schema, also on one whose allOf
\* (or anyOf, oneOf, items, properties) nesting is circular: it never
\* overflows the stack
C27_WalkNeverOverflows == pc # "overflow"

\* the legacy view without a filter
LegacyUnfiltered == Built /\ ~ErdMode /\ filterOf(opts) = <<>>
\* the kind strings of the schema: GroupType--EntityType of every
\* x-osdu-relationship entry and the value of every $ref
SchemaKinds ==
  LET rels == collectFromSchema(model.schema).relations
  IN {rels[i].kind : i \in {j \in DOMAIN rels : rels[j].type = "relationship"}}
       \cup {SchemaRefs[i] : i \in DOMAIN SchemaRefs}
\* the relationship-kind nodes of a kind string
KindNodes(k) ==
  {i \in DOMAIN Nodes :
     /\ Nodes[i].subtitle = <<"r","e","l","a","t","i","o","n","s","h","i","p">>
     /\ Nodes[i].label = k}
\* the relationship edges from the main entity to a node
RelEdgesTo(id) ==
  {e \in DOMAIN Edges :
     Edges[e].type = "relationship" /\ Edges[e].source = MainId /\ Edges[e].target = id}

\* C28: in the legacy view every distinct kind string, GroupType--EntityType
\* of an x-osdu-relationship entry or the value of a $ref, has exactly one
\* relationship-kind node, and the main entity has exactly one relationship
\* edge to that node
C28_OneKindNodePerKind ==
  LegacyUnfiltered =>
    \A k \in SchemaKinds :
      /\ Cardinality(KindNodes(k)) = 1
      /\ \A i \in KindNodes(k) : Cardinality(RelEdgesTo(Nodes[i].id)) = 1

\* C29: every graph buildGraph returns is a star centred on the main entity,
\* in the ERD view and in the legacy view: the main entity is the source of
\* every edge, and the target of every edge is a node other than the main
\* entity, so that there is no self-loop and no edge between two other nodes
C29_StarOnMainEntity ==
  Built =>
    /\ Nodes[1].id = MainId
    /\ \A e \in DOMAIN Edges :
         /\ Edges[e].source = MainId
         /\ Edges[e].target # MainId
         /\ \E i \in 2..Len(Nodes) : Nodes[i].id = Edges[e].target

\* the breadcrumb trail: the history, then the selected model
Trail == history \o (IF model = NoModel THEN <<>> ELSE <<model>>)
\* no two neighbours of the trail have the same id and path
NoAdjacentSame ==
  \A i \in 1..(Len(Trail) - 1) :
    ~(Trail[i].id = Trail[i + 1].id /\ Trail[i].path = Trail[i + 1].path)
\* what a handler that has just run has done to history and selection
HandlerStep ==
  /\ (pc' = "handleBack" /\ history = <<>>) => UNCHANGED <<history, model>>
  /\ (pc' = "handleSchemaSelect" /\ model' = model) => history' = history
  /\ (pc' = "handleSchemaSelect" /\ model' # model) =>
       history' = (IF model = NoModel THEN history ELSE Append(history, model))
  /\ pc' = "handleModelSelect" => history' = <<>>

\* C30: after any sequence of handleModelSelect, handleSchemaSelect,
\* handleBack and handleBreadcrumbJump the history followed by the selected
\* model never has two neighbours with the same id and path; a navigation to
\* the selected schema changes neither history nor selection, back on an
\* empty history changes nothing, and a selection in the dropdown leaves the
\* history empty
C30_TrailWithoutRepeats ==
  /\ [](NoAdjacentSame /\ (pc = "handleModelSelect" => history = <<>>))
  /\ [][HandlerStep]_vars

\* a trail of four models after three navigations, the history holding a
\* model twice
C30_Witness ==
  /\ pc = "handleSchemaSelect"
  /\ Len(history) = 3
  /\ model # NoModel
  /\ \E i, j \in DOMAIN history : i < j /\ history[i] = history[j]

====
